---- MODULE Spec2Model ----
(***************************************************************************)
(* Model of the AI Operations Assistant pipeline                           *)
(*   Planner -> Executor -> Verifier  (src/ai_ops_assistant).              *)
(*                                                                         *)
(* Python values are tagged records [ty, val]; a dict is a TLA+ record of  *)
(* tagged values, a list a sequence of tagged values.  The `results`       *)
(* mapping of an execution report is an insertion-ordered sequence of      *)
(* [key, value] entries, as a Python dict is.                              *)
(***************************************************************************)
EXTENDS Integers, Sequences, FiniteSets, TLC

(***************************************************************************)
(* Bounds of the model                                                     *)
(***************************************************************************)
\* longest plan handed to execute_plan
MaxSteps == 3
\* most items the GitHub search API answers with
MaxItems == 2
\* longest plan the LLM capability answers create_plan with
MaxPlanSteps == 2
\* largest counter of a report handed to verify_and_format
MaxCount == 2
\* most entries in the results of a report handed to verify_and_format
MaxEntries == 2
\* largest retry_count a tool action is called with
MaxRetry == 3

(***************************************************************************)
(* Python values                                                           *)
(***************************************************************************)
PyNone == [ty |-> "none"]
PyBool(b) == [ty |-> "bool", val |-> b]
PyInt(n) == [ty |-> "int", val |-> n]
PyStr(s) == [ty |-> "str", val |-> s]
PyDict(r) == [ty |-> "dict", val |-> r]
PyList(s) == [ty |-> "list", val |-> s]

\* the empty dict {} : a record with no field
EmptyRec == [x \in {} |-> PyNone]

IsDict(x) == x.ty = "dict"
IsList(x) == x.ty = "list"

\* bool(x) of a check written `is True`
TruthyOnlyTrue(x) == x = PyBool(TRUE)

\* bool(x)
Truthy(x) ==
  CASE x.ty = "none" -> FALSE
    [] x.ty = "bool" -> x.val
    [] x.ty = "int"  -> x.val # 0
    [] x.ty = "str"  -> x.val # ""
    [] x.ty = "dict" -> DOMAIN x.val # {}
    [] x.ty = "list" -> Len(x.val) > 0

\* d.get(k)
DictGet(d, k) == IF k \in DOMAIN d.val THEN d.val[k] ELSE PyNone

\* d.get(k, default)
DictGetDefault(d, k, default) == IF k \in DOMAIN d.val THEN d.val[k] ELSE default

\* str(x) as an f-string renders it
PyFormat(x) ==
  CASE x.ty = "none" -> "None"
    [] x.ty = "str"  -> x.val
    [] x.ty = "int"  -> ToString(x.val)
    [] x.ty = "bool" -> IF x.val THEN "True" ELSE "False"
    [] OTHER -> "<object>"

\* `sub in s` on strings
Contains(s, sub) ==
  \E k \in 1..(Len(s) - Len(sub) + 1) : SubSeq(s, k, k + Len(sub) - 1) = sub

(***************************************************************************)
(* Insertion-ordered mapping (the report's `results` dict)                 *)
(***************************************************************************)
KeysOf(d) == {d[k].key : k \in 1..Len(d)}

\* key in d
HasKey(d, key) == key \in KeysOf(d)

\* d[key] = value : replaces in place when the key exists, else appends
SetItem(d, key, value) ==
  IF HasKey(d, key)
    THEN [k \in 1..Len(d) |-> IF d[k].key = key THEN [key |-> key, value |-> value] ELSE d[k]]
    ELSE Append(d, [key |-> key, value |-> value])

\* d[key]
GetItem(d, key) == d[CHOOSE k \in 1..Len(d) : d[k].key = key].value

(***************************************************************************)
(* Outcome of a call: a returned value or a raised exception               *)
(***************************************************************************)
Return(v) == [kind |-> "return", value |-> v]
Raise(exc, msg) == [kind |-> "raise", exc |-> exc, msg |-> msg]

(***************************************************************************)
(* Tools (tools/github_tool.py, tools/weather_tool.py)                     *)
(***************************************************************************)
\* def lines of the four bound methods: named parameters without / with default
Signature ==
  [search_repos         |-> [required |-> {"query"},
                             accepted |-> {"query", "limit", "sort", "order", "retry_count"}],
   get_repo_info        |-> [required |-> {"owner", "repo"},
                             accepted |-> {"owner", "repo"}],
   get_weather          |-> [required |-> {"city"},
                             accepted |-> {"city", "units", "retry_count"}],
   get_weather_forecast |-> [required |-> {"city"},
                             accepted |-> {"city", "days"}]]

\* method(**params): the TypeError Python raises when the arguments do not
\* fit the signature, or "ok"
BindError(method, params) ==
  IF ~IsDict(params)
    THEN "argument after ** must be a mapping"
  ELSE IF ~(DOMAIN params.val \subseteq Signature[method].accepted)
    THEN method \o "() got an unexpected keyword argument"
  ELSE IF ~(Signature[method].required \subseteq DOMAIN params.val)
    THEN method \o "() missing required positional argument"
  ELSE "ok"

\* messages of the failures the transport can end an action with
GitHubFailures == {"Rate limit exceeded: ", "Request timeout"}
WeatherFailures(city) == {"City '" \o city \o "' not found", "Request timeout"}

\* _fallback_response without the error field
GitHubFallbackUnmarked(error_msg) ==
  PyList(<<PyDict([name |-> PyStr("Error"),
                   stars |-> PyInt(0),
                   description |-> PyStr("Failed to fetch data: " \o error_msg),
                   url |-> PyStr("")])>>)

\* GitHubTool._fallback_response
GitHubFallback(error_msg) ==
  PyList(<<PyDict([name |-> PyStr("Error"),
                   stars |-> PyInt(0),
                   description |-> PyStr("Failed to fetch data: " \o error_msg),
                   url |-> PyStr(""),
                   error |-> PyBool(TRUE)])>>)

\* the k-th item of a GitHub search answer, as search_repos converts it
Repo(k) ==
  PyDict([name |-> PyStr("octo/repo" \o ToString(k)),
          stars |-> PyInt(k),
          description |-> PyStr("No description"),
          url |-> PyStr("https://github.com/octo/repo" \o ToString(k)),
          language |-> PyStr("Unknown"),
          forks |-> PyInt(0)])

\* len(items[:limit])
SliceLen(n, limit) ==
  IF limit >= 0 THEN (IF limit < n THEN limit ELSE n)
  ELSE (IF n + limit > 0 THEN n + limit ELSE 0)

\* GitHubTool.search_repos: every value the call can end with
search_repos(params) ==
  LET limit == DictGetDefault(params, "limit", PyInt(5))
      retry_count == DictGetDefault(params, "retry_count", PyInt(3))
  IN IF limit.ty # "int"
       THEN {Raise("TypeError", "'<' not supported between instances of 'int' and '" \o limit.ty \o "'")}
     ELSE IF retry_count.ty # "int"
       THEN {Raise("TypeError", "'" \o retry_count.ty \o "' object cannot be interpreted as an integer")}
     ELSE IF retry_count.val <= 0
       THEN {Return(GitHubFallback("Max retries exceeded"))}
     ELSE {Return(PyList([k \in 1..SliceLen(n, limit.val) |-> Repo(k)])) : n \in 0..MaxItems}
          \cup {Return(GitHubFallback(m)) : m \in GitHubFailures}

\* GitHubTool.get_repo_info
get_repo_info(params) ==
  LET full_name == PyFormat(params.val.owner) \o "/" \o PyFormat(params.val.repo)
  IN {Return(PyDict([name |-> PyStr(full_name),
                     stars |-> PyInt(0),
                     description |-> PyStr("No description"),
                     url |-> PyStr("https://github.com/" \o full_name),
                     language |-> PyStr("Unknown"),
                     forks |-> PyInt(0),
                     open_issues |-> PyInt(0),
                     created_at |-> PyNone,
                     updated_at |-> PyNone])),
      Return(PyDict([error |-> PyStr("API error: 404")]))}

\* WeatherTool._fallback_response
WeatherFallback(error_msg) ==
  PyDict([city |-> PyStr("Unknown"),
          temperature |-> PyNone,
          condition |-> PyStr("Error"),
          description |-> PyStr(error_msg),
          humidity |-> PyNone,
          error |-> PyBool(TRUE)])

\* WeatherTool.get_weather; has_key: self.api_key is set
get_weather(params, has_key) ==
  LET city == PyFormat(params.val.city)
      units == DictGetDefault(params, "units", PyStr("metric"))
      retry_count == DictGetDefault(params, "retry_count", PyInt(3))
  IN IF ~has_key
       THEN {Return(WeatherFallback("API key not configured"))}
     ELSE IF retry_count.ty # "int"
       THEN {Raise("TypeError", "'" \o retry_count.ty \o "' object cannot be interpreted as an integer")}
     ELSE IF retry_count.val <= 0
       THEN {Return(WeatherFallback("Max retries exceeded"))}
     ELSE {Return(PyDict([city |-> PyStr(city),
                          country |-> PyStr("IN"),
                          temperature |-> PyInt(25),
                          feels_like |-> PyInt(27),
                          condition |-> PyStr("Clear"),
                          description |-> PyStr("clear sky"),
                          humidity |-> PyInt(40),
                          pressure |-> PyInt(1012),
                          wind_speed |-> PyInt(3),
                          units |-> PyStr(IF units = PyStr("metric") THEN "C" ELSE "F")]))}
          \cup {Return(WeatherFallback(m)) : m \in WeatherFailures(city)}

\* WeatherTool.get_weather_forecast: the placeholder
get_weather_forecast(params) ==
  {Return(PyDict([city |-> params.val.city,
                  forecast |-> PyList(<<>>),
                  error |-> PyStr("Forecast not implemented")]))}

\* an exception other than TypeError escaping a bound action
UnexpectedRaise == Raise("RuntimeError", "unexpected failure")

\* method(**params) for a method of the registry
MethodCall(method, params, has_key) ==
  IF BindError(method, params) # "ok"
    THEN {Raise("TypeError", BindError(method, params))}
  ELSE (CASE method = "search_repos" -> search_repos(params)
          [] method = "get_repo_info" -> get_repo_info(params)
          [] method = "get_weather" -> get_weather(params, has_key)
          [] method = "get_weather_forecast" -> get_weather_forecast(params))
       \cup {UnexpectedRaise}

\* what one requests.get can end with: a status code with a body that
\* parses, status 200 with a body that does not, a timeout, another exception
TransportOutcomes == {"200", "401", "403", "404", "500", "bad body", "timeout", "exception"}

\* an exception whose str(e) is empty
TransportMessageEmpty(outcome) == ""

\* str(e) of the exception a request ended with: the requests library
\* builds its exceptions from the error it wraps, a JSON error names the
\* position
TransportMessage(outcome) ==
  IF outcome = "bad body" THEN "Expecting value: line 1 column 1 (char 0)"
  ELSE "Connection refused"

\* a loop that runs once more than retry_count asks
AttemptsOneMore(retry_count) == IF retry_count + 1 > 0 THEN retry_count + 1 ELSE 0

\* len(range(retry_count)): the iterations of `for attempt in range(retry_count)`
Attempts(retry_count) == IF retry_count > 0 THEN retry_count ELSE 0

\* one iteration outcome: the call returns value, or sleeps and continues
Leave(value) == [kind |-> "return", value |-> value]
Continue(seconds) == [kind |-> "continue", seconds |-> seconds]

\* the body of the loop of search_repos for one transport outcome;
\* fetched: what the call returns from a status 200 answer
search_repos_attempt(outcome, attempt, retry_count, fetched) ==
  LET last == ~(attempt < retry_count - 1)
  IN CASE outcome = "200" -> Leave(fetched)
       [] outcome = "403" ->
            IF last THEN Leave(GitHubFallback("Rate limit exceeded: "))
            ELSE Continue(2 ^ attempt)
       [] outcome \in {"401", "404", "500"} ->
            IF last THEN Leave(GitHubFallback("API error: " \o outcome))
            ELSE Continue(1)
       [] outcome = "timeout" ->
            IF last THEN Leave(GitHubFallback("Request timeout")) ELSE Continue(1)
       [] OTHER ->
            IF last THEN Leave(GitHubFallback(TransportMessage(outcome)))
            ELSE Continue(1)

\* the body of the loop of get_weather for one transport outcome
get_weather_attempt(outcome, attempt, retry_count, city, fetched) ==
  LET last == ~(attempt < retry_count - 1)
  IN CASE outcome = "200" -> Leave(fetched)
       [] outcome = "404" -> Leave(WeatherFallback("City '" \o city \o "' not found"))
       [] outcome = "401" -> Leave(WeatherFallback("Invalid API key"))
       [] outcome \in {"403", "500"} ->
            IF last THEN Leave(WeatherFallback("API error: " \o outcome))
            ELSE Continue(1)
       [] outcome = "timeout" ->
            IF last THEN Leave(WeatherFallback("Request timeout")) ELSE Continue(1)
       [] OTHER ->
            IF last THEN Leave(WeatherFallback(TransportMessage(outcome)))
            ELSE Continue(1)

\* get_repo_info after its one request ended with outcome
get_repo_info_request(outcome, fetched) ==
  CASE outcome = "200" -> fetched
    [] outcome \in {"401", "403", "404", "500"} ->
         PyDict([error |-> PyStr("API error: " \o outcome)])
    [] OTHER ->
         PyDict([error |-> PyStr(IF outcome = "timeout" THEN "Read timed out"
                                 ELSE TransportMessage(outcome))])

(***************************************************************************)
(* ExecutorAgent (agents/executor.py)                                      *)
(***************************************************************************)
\* self.action_map: tool name -> action name -> bound method
action_map ==
  [github  |-> [search_repos |-> "search_repos", get_repo_info |-> "get_repo_info"],
   weather |-> [get_weather |-> "get_weather", get_forecast |-> "get_weather_forecast"]]

\* name in mapping, for a Python value used as the key of a str-keyed dict
InKeys(name, keys) == name.ty = "str" /\ name.val \in keys

\* _execute_step without its except TypeError clause
ConvertNothing(o) == o

\* the try/except TypeError around method(**params) in _execute_step
ConvertTypeError(o) ==
  IF o.kind = "raise" /\ o.exc = "TypeError"
    THEN Return(PyDict([error |-> PyBool(TRUE),
                        message |-> PyStr("Invalid parameters: " \o o.msg)]))
    ELSE o

\* _execute_step answering an unknown tool or action with an error record
\* instead of raising
execute_step_returns_unknown(step, has_key) ==
  LET tool_name == DictGet(step, "tool")
      action_name == DictGet(step, "action")
      params == DictGetDefault(step, "params", PyDict(EmptyRec))
  IN IF ~InKeys(tool_name, DOMAIN action_map)
          \/ ~InKeys(action_name, DOMAIN action_map[tool_name.val])
       THEN {Return(PyDict([error |-> PyBool(TRUE),
                            message |-> PyStr("Unknown tool or action")]))}
     ELSE LET method == action_map[tool_name.val][action_name.val]
          IN {ConvertTypeError(o) : o \in MethodCall(method, params, has_key)}

\* ExecutorAgent._execute_step: every outcome the call can end with
execute_step(step, has_key) ==
  LET tool_name == DictGet(step, "tool")
      action_name == DictGet(step, "action")
      params == DictGetDefault(step, "params", PyDict(EmptyRec))
  IN IF ~InKeys(tool_name, DOMAIN action_map)
       THEN {Raise("ValueError", "Unknown tool: " \o PyFormat(tool_name))}
     ELSE IF ~InKeys(action_name, DOMAIN action_map[tool_name.val])
       THEN {Raise("ValueError", "Unknown action '" \o PyFormat(action_name)
                                 \o "' for tool '" \o tool_name.val \o "'")}
     ELSE LET method == action_map[tool_name.val][action_name.val]
          IN {ConvertTypeError(o) : o \in MethodCall(method, params, has_key)}

\* the empty report execute_plan starts from
EmptyReport == [steps_executed |-> 0, steps_failed |-> 0, results |-> <<>>]

\* the except clause counting the step as executed too
StepExceptCountsExecuted(results, i, step, msg) ==
  [results EXCEPT
     !.results = SetItem(@, "error_step_" \o ToString(i),
                         PyDict([error |-> PyBool(TRUE),
                                 message |-> PyStr(msg),
                                 step |-> step])),
     !.steps_executed = @ + 1,
     !.steps_failed = @ + 1]

\* the except clause numbering the steps from 1, as the log lines do
StepExceptOneBased(results, i, step, msg) ==
  [results EXCEPT
     !.results = SetItem(@, "error_step_" \o ToString(i + 1),
                         PyDict([error |-> PyBool(TRUE),
                                 message |-> PyStr(msg),
                                 step |-> step])),
     !.steps_failed = @ + 1]

\* the except clause of the loop body of execute_plan
StepExcept(results, i, step, msg) ==
  [results EXCEPT
     !.results = SetItem(@, "error_step_" \o ToString(i),
                         PyDict([error |-> PyBool(TRUE),
                                 message |-> PyStr(msg),
                                 step |-> step])),
     !.steps_failed = @ + 1]

\* result_key without the collision check
ResultKeyNoSuffix(results, i, step) ==
  PyFormat(step.val.tool) \o "_" \o PyFormat(step.val.action)

\* result_key with the suffix numbering the steps from 1
ResultKeyOneBased(results, i, step) ==
  LET result_key == PyFormat(step.val.tool) \o "_" \o PyFormat(step.val.action)
  IN IF HasKey(results.results, result_key)
       THEN result_key \o "_" \o ToString(i + 1)
       ELSE result_key

\* result_key of step i, given the keys already in the report
ResultKey(results, i, step) ==
  LET result_key == PyFormat(step.val.tool) \o "_" \o PyFormat(step.val.action)
  IN IF HasKey(results.results, result_key)
       THEN result_key \o "_" \o ToString(i)
       ELSE result_key

\* `except ValueError` in place of `except Exception`
CaughtOnlyValueError(exc) == exc = "ValueError"

\* `except Exception`: the exception classes the clause catches
CaughtAsException(exc) ==
  exc \in {"ValueError", "TypeError", "AttributeError", "KeyError", "RuntimeError"}

\* the try block counting a step as failed only for `error is True`
StepTryBooleanOnly(results, i, step, o) ==
  IF o.kind = "raise"
    THEN [report |-> results, end |-> o]
  ELSE
    LET result == o.value
        stored == [results EXCEPT
                     !.results = SetItem(@, ResultKey(results, i, step), result),
                     !.steps_executed = @ + 1]
        failed == [stored EXCEPT !.steps_failed = @ + 1]
    IN IF IsDict(result) /\ TruthyOnlyTrue(DictGet(result, "error"))
         THEN [report |-> failed, end |-> Return(PyNone)]
       ELSE IF IsList(result) /\ Truthy(result)
         THEN IF ~IsDict(result.val[1])
                THEN [report |-> stored,
                      end |-> Raise("AttributeError", "object has no attribute 'get'")]
              ELSE IF TruthyOnlyTrue(DictGet(result.val[1], "error"))
                THEN [report |-> failed, end |-> Return(PyNone)]
              ELSE [report |-> stored, end |-> Return(PyNone)]
       ELSE [report |-> stored, end |-> Return(PyNone)]

\* the try block of the loop body of execute_plan, for a step i whose
\* _execute_step call ended with outcome o: the report it leaves (the
\* block mutates the report before it may raise) and how it ends
StepTry(results, i, step, o) ==
  IF o.kind = "raise"
    THEN [report |-> results, end |-> o]
  ELSE
    LET result == o.value
        stored == [results EXCEPT
                     !.results = SetItem(@, ResultKey(results, i, step), result),
                     !.steps_executed = @ + 1]
        failed == [stored EXCEPT !.steps_failed = @ + 1]
    IN IF IsDict(result) /\ Truthy(DictGet(result, "error"))
         THEN [report |-> failed, end |-> Return(PyNone)]
       ELSE IF IsList(result) /\ Truthy(result)
         THEN IF ~IsDict(result.val[1])
                THEN [report |-> stored,
                      end |-> Raise("AttributeError", "object has no attribute 'get'")]
              ELSE IF Truthy(DictGet(result.val[1], "error"))
                THEN [report |-> failed, end |-> Return(PyNone)]
              ELSE [report |-> stored, end |-> Return(PyNone)]
       ELSE [report |-> stored, end |-> Return(PyNone)]

\* one iteration of the loop of execute_plan (try and except): the report
\* after step i, or the exception that leaves execute_plan
StepBody(results, i, step, o) ==
  LET t == StepTry(results, i, step, o)
  IN IF t.end.kind = "return"
       THEN Return(t.report)
     ELSE IF CaughtAsException(t.end.exc)
       THEN Return(StepExcept(t.report, i, step, t.end.msg))
     ELSE t.end

\* execute_plan taking each step off the plan as it runs it
PlanAfterStepPopped(plan, step) ==
  IF IsDict(plan) /\ "steps" \in DOMAIN plan.val /\ Len(plan.val.steps.val) > 0
    THEN PyDict([f \in DOMAIN plan.val |->
                   IF f = "steps" THEN PyList(Tail(plan.val.steps.val)) ELSE plan.val[f]])
    ELSE plan

\* the plan after the iteration for one of its steps: execute_plan and
\* _execute_step read the plan and the step with get, and method(**params)
\* hands the bound action a copy of params
PlanAfterStep(plan, step) == plan

\* plan.get("steps", [])
PlanSteps(plan) == DictGetDefault(plan, "steps", PyList(<<>>)).val

\* the loop walking the steps from the last to the first
StepOfIterationReversed(plan, i) == PlanSteps(plan)[Len(PlanSteps(plan)) - i]

\* `for i, step in enumerate(steps)`: the step of the iteration with index i
StepOfIteration(plan, i) == PlanSteps(plan)[i + 1]

(***************************************************************************)
(* VerifierAgent (agents/verifier.py)                                      *)
(***************************************************************************)
\* the loop of _basic_validation looking at mappings only
RECURSIVE ScanResultsDictOnly(_, _, _)
ScanResultsDictOnly(entries, k, validation) ==
  IF k > Len(entries) THEN validation
  ELSE
    LET key == entries[k].key
        value == entries[k].value
    IN ScanResultsDictOnly(entries, k + 1,
         IF IsDict(value) /\ Truthy(DictGet(value, "error"))
           THEN [validation EXCEPT
                   !.status = IF @ = "success" THEN "partial" ELSE @,
                   !.errors = Append(@, key \o ": "
                                        \o PyFormat(DictGetDefault(value, "message",
                                                                   PyStr("Unknown error"))))]
         ELSE validation)

\* the loop of _basic_validation flagging only `error is True`
RECURSIVE ScanResultsBooleanOnly(_, _, _)
ScanResultsBooleanOnly(entries, k, validation) ==
  IF k > Len(entries) THEN validation
  ELSE
    LET key == entries[k].key
        value == entries[k].value
        flagged(msg) ==
          [validation EXCEPT
             !.status = IF @ = "success" THEN "partial" ELSE @,
             !.errors = Append(@, key \o ": " \o msg)]
    IN ScanResultsBooleanOnly(entries, k + 1,
         IF IsDict(value) /\ DictGet(value, "error") = PyBool(TRUE)
           THEN flagged(PyFormat(DictGetDefault(value, "message", PyStr("Unknown error"))))
         ELSE IF IsList(value) /\ Truthy(value) /\ IsDict(value.val[1])
                 /\ DictGet(value.val[1], "error") = PyBool(TRUE)
           THEN flagged(PyFormat(DictGetDefault(value.val[1], "description",
                                                PyStr("Unknown error"))))
         ELSE validation)

\* the loop of _basic_validation over results.items(), from entry k on
RECURSIVE ScanResults(_, _, _)
ScanResults(entries, k, validation) ==
  IF k > Len(entries) THEN validation
  ELSE
    LET key == entries[k].key
        value == entries[k].value
        flagged(msg) ==
          [validation EXCEPT
             !.status = IF @ = "success" THEN "partial" ELSE @,
             !.errors = Append(@, key \o ": " \o msg)]
    IN ScanResults(entries, k + 1,
         IF IsDict(value) /\ Truthy(DictGet(value, "error"))
           THEN flagged(PyFormat(DictGetDefault(value, "message", PyStr("Unknown error"))))
         ELSE IF IsList(value) /\ Truthy(value) /\ IsDict(value.val[1])
                 /\ Truthy(DictGet(value.val[1], "error"))
           THEN flagged(PyFormat(DictGetDefault(value.val[1], "description",
                                                PyStr("Unknown error"))))
         ELSE validation)

\* _basic_validation without the steps_executed == 0 check
basic_validation_skips_zero(results) ==
  LET v0 == [status |-> "success", missing_fields |-> <<>>, errors |-> <<>>]
      v1 == IF results.steps_failed > 0
              THEN [v0 EXCEPT !.status = "partial",
                              !.errors = Append(@, ToString(results.steps_failed)
                                                   \o " step(s) failed")]
              ELSE v0
  IN ScanResults(results.results, 1, v1)

\* VerifierAgent._basic_validation
basic_validation(results) ==
  LET v0 == [status |-> "success", missing_fields |-> <<>>, errors |-> <<>>]
      v1 == IF results.steps_failed > 0
              THEN [v0 EXCEPT !.status = "partial",
                              !.errors = Append(@, ToString(results.steps_failed)
                                                   \o " step(s) failed")]
              ELSE v0
      v2 == IF results.steps_executed = 0
              THEN [v1 EXCEPT !.status = "failed",
                              !.errors = Append(@, "No steps executed successfully")]
              ELSE v1
  IN ScanResults(results.results, 1, v2)

\* the loop of _format_results with append in place of extend
RECURSIVE GroupResultsAppendsList(_, _, _)
GroupResultsAppendsList(entries, k, acc) ==
  IF k > Len(entries) THEN acc
  ELSE
    LET key == entries[k].key
        value == entries[k].value
    IN GroupResultsAppendsList(entries, k + 1,
         IF Contains(key, "github")
           THEN IF IsList(value) \/ IsDict(value)
                  THEN [acc EXCEPT !.github_repos = Append(@, value)]
                ELSE acc
         ELSE IF Contains(key, "weather")
           THEN IF IsDict(value) THEN [acc EXCEPT !.weather_data = value] ELSE acc
         ELSE acc)

\* the loop of _format_results keeping the first weather mapping
RECURSIVE GroupResultsFirstWeather(_, _, _)
GroupResultsFirstWeather(entries, k, acc) ==
  IF k > Len(entries) THEN acc
  ELSE
    LET key == entries[k].key
        value == entries[k].value
    IN GroupResultsFirstWeather(entries, k + 1,
         IF Contains(key, "github")
           THEN IF IsList(value)
                  THEN [acc EXCEPT !.github_repos = @ \o value.val]
                ELSE IF IsDict(value)
                  THEN [acc EXCEPT !.github_repos = Append(@, value)]
                ELSE acc
         ELSE IF Contains(key, "weather")
           THEN IF IsDict(value) /\ acc.weather_data = PyDict(EmptyRec)
                  THEN [acc EXCEPT !.weather_data = value]
                ELSE acc
         ELSE acc)

\* the loop of _format_results taking a mapping under any other key as
\* weather data
RECURSIVE GroupResultsAnyKey(_, _, _)
GroupResultsAnyKey(entries, k, acc) ==
  IF k > Len(entries) THEN acc
  ELSE
    LET key == entries[k].key
        value == entries[k].value
    IN GroupResultsAnyKey(entries, k + 1,
         IF Contains(key, "github")
           THEN IF IsList(value)
                  THEN [acc EXCEPT !.github_repos = @ \o value.val]
                ELSE IF IsDict(value)
                  THEN [acc EXCEPT !.github_repos = Append(@, value)]
                ELSE acc
         ELSE IF IsDict(value) THEN [acc EXCEPT !.weather_data = value] ELSE acc)

\* the loop of _format_results over raw_results.items(), from entry k on
RECURSIVE GroupResults(_, _, _)
GroupResults(entries, k, acc) ==
  IF k > Len(entries) THEN acc
  ELSE
    LET key == entries[k].key
        value == entries[k].value
    IN GroupResults(entries, k + 1,
         IF Contains(key, "github")
           THEN IF IsList(value)
                  THEN [acc EXCEPT !.github_repos = @ \o value.val]
                ELSE IF IsDict(value)
                  THEN [acc EXCEPT !.github_repos = Append(@, value)]
                ELSE acc
         ELSE IF Contains(key, "weather")
           THEN IF IsDict(value) THEN [acc EXCEPT !.weather_data = value] ELSE acc
         ELSE acc)

\* a list of str
StrList(strs) == PyList([k \in 1..Len(strs) |-> PyStr(strs[k])])

\* VerifierAgent._format_results
format_results(execution_results, validation) ==
  LET acc == GroupResults(execution_results.results, 1,
                          [github_repos |-> <<>>, weather_data |-> PyDict(EmptyRec)])
      categories == (IF Truthy(PyList(acc.github_repos)) THEN {"github_repos"} ELSE {})
                    \cup (IF Truthy(acc.weather_data) THEN {"weather"} ELSE {})
  IN PyDict([status |-> PyStr(validation.status),
             results |-> PyDict([c \in categories |->
                                   IF c = "github_repos" THEN PyList(acc.github_repos)
                                   ELSE acc.weather_data]),
             missing_fields |-> StrList(validation.missing_fields),
             errors |-> StrList(validation.errors)])

\* _llm_verification assigning status and results without the `not in`
\* checks
llm_verification_overwrites(o) ==
  IF o.kind = "raise" THEN o
  ELSE
    LET verified_output == o.value
    IN IF verified_output.ty # "dict"
         THEN Raise("TypeError", "object does not support item assignment")
       ELSE Return(PyDict([f \in DOMAIN verified_output.val \cup {"status", "results"} |->
                             IF f = "status" THEN PyStr("partial")
                             ELSE IF f = "results" THEN PyDict(EmptyRec)
                             ELSE verified_output.val[f]]))

\* VerifierAgent._llm_verification, for a generate_json call that ended
\* with outcome o
llm_verification(o) ==
  IF o.kind = "raise" THEN o
  ELSE
    LET verified_output == o.value
        has(name) ==
          CASE verified_output.ty = "dict" -> name \in DOMAIN verified_output.val
            [] verified_output.ty = "list" ->
                 \E k \in 1..Len(verified_output.val) : verified_output.val[k] = PyStr(name)
            [] verified_output.ty = "str" -> Contains(verified_output.val, name)
            [] OTHER -> FALSE
    IN IF verified_output.ty \notin {"dict", "list", "str"}
         THEN Raise("TypeError", "argument of type is not iterable")
       ELSE IF verified_output.ty = "dict"
         THEN Return(PyDict([f \in DOMAIN verified_output.val \cup {"status", "results"} |->
                               IF f \in DOMAIN verified_output.val THEN verified_output.val[f]
                               ELSE IF f = "status" THEN PyStr("partial")
                               ELSE PyDict(EmptyRec)]))
       ELSE IF has("status") /\ has("results")
         THEN Return(verified_output)
       ELSE Raise("TypeError", "object does not support item assignment")

\* verify_and_format calling the LLM capability for every report
NeedsLLMAlways(execution_results) == TRUE

\* verify_and_format calls the LLM capability for this report
NeedsLLM(execution_results) == basic_validation(execution_results).status # "success"

\* verify_and_format emptying the results of the report it formatted
ReportAfterVerifyDrained(execution_results) ==
  [execution_results EXCEPT !.results = <<>>]

\* the report after verify_and_format returned: the Verifier reads it
\* with get and items and builds new sequences and mappings from it
ReportAfterVerify(execution_results) == execution_results

\* verify_and_format putting the cause of the fallback into errors
verify_and_format_reports_cause(execution_results, o) ==
  LET basic_validation_ == basic_validation(execution_results)
  IN IF basic_validation_.status = "success"
       THEN Return(format_results(execution_results, basic_validation_))
     ELSE LET llm_validation == llm_verification(o)
          IN IF llm_validation.kind = "return"
               THEN llm_validation
             ELSE Return(format_results(execution_results,
                    [basic_validation_ EXCEPT
                       !.errors = Append(@, "LLM verification failed: " \o llm_validation.msg)]))

\* verify_and_format without its except clause
verify_and_format_reraises(execution_results, o) ==
  LET basic_validation_ == basic_validation(execution_results)
  IN IF basic_validation_.status = "success"
       THEN Return(format_results(execution_results, basic_validation_))
     ELSE llm_verification(o)

\* VerifierAgent.verify_and_format; o is the outcome of the generate_json
\* call, looked at only when the call is made
verify_and_format(execution_results, o) ==
  LET basic == basic_validation(execution_results)
  IN IF basic.status = "success"
       THEN Return(format_results(execution_results, basic))
     ELSE LET llm_validation == llm_verification(o)
          IN IF llm_validation.kind = "return"
               THEN llm_validation
             ELSE IF CaughtAsException(llm_validation.exc)
               THEN Return(format_results(execution_results, basic))
             ELSE llm_validation

\* the steps retry_failed_steps hands to the executor: the retry logic is
\* a placeholder
RetriedSteps(verification_result) == <<>>

\* retry_failed_steps reporting success once it has looked at the failures
retry_failed_steps_marks_success(verification_result) ==
  IF ~IsDict(verification_result)
    THEN Raise("TypeError", "indices must be integers")
  ELSE IF "status" \notin DOMAIN verification_result.val
    THEN Raise("KeyError", "'status'")
  ELSE Return(PyDict([f \in DOMAIN verification_result.val |->
                        IF f = "status" THEN PyStr("success")
                        ELSE verification_result.val[f]]))

\* VerifierAgent.retry_failed_steps: it reads verification_result["status"]
\* and returns the value it was given on both branches
retry_failed_steps(verification_result) ==
  IF ~IsDict(verification_result)
    THEN Raise("TypeError", "indices must be integers")
  ELSE IF "status" \notin DOMAIN verification_result.val
    THEN Raise("KeyError", "'status'")
  ELSE Return(verification_result)

(***************************************************************************)
(* PlannerAgent (agents/planner.py)                                        *)
(***************************************************************************)
\* an allow-list naming a tool the Executor has not registered
valid_tools_with_slack == {"github", "weather", "slack"}

\* the tool names _validate_plan accepts
valid_tools == {"github", "weather"}

\* _validate_plan without the check of the tool names
validate_plan_any_tool(plan) ==
  /\ IsDict(plan)
  /\ "steps" \in DOMAIN plan.val
  /\ IsList(plan.val.steps)
  /\ \A k \in 1..Len(plan.val.steps.val) :
       LET step == plan.val.steps.val[k]
       IN /\ IsDict(step)
          /\ {"tool", "action", "params"} \subseteq DOMAIN step.val

\* PlannerAgent._validate_plan
validate_plan(plan) ==
  /\ IsDict(plan)
  /\ "steps" \in DOMAIN plan.val
  /\ IsList(plan.val.steps)
  /\ \A k \in 1..Len(plan.val.steps.val) :
       LET step == plan.val.steps.val[k]
       IN /\ IsDict(step)
          /\ {"tool", "action", "params"} \subseteq DOMAIN step.val
          /\ InKeys(step.val.tool, valid_tools)

\* PlannerAgent.create_plan, for a generate_json call that ended with o
create_plan(o) ==
  IF o.kind = "raise" THEN o
  ELSE IF ~validate_plan(o.value)
    THEN Raise("ValueError", "Invalid plan structure generated")
  ELSE Return(o.value)

\* refine_plan returning the refined plan without validating it
refine_plan_unchecked(plan, o) ==
  IF o.kind = "raise"
    THEN (IF CaughtAsException(o.exc) THEN Return(plan) ELSE o)
  ELSE Return(o.value)

\* PlannerAgent.refine_plan, for a generate_json call that ended with o
refine_plan(plan, o) ==
  IF o.kind = "raise"
    THEN (IF CaughtAsException(o.exc) THEN Return(plan) ELSE o)
  ELSE IF validate_plan(o.value) THEN Return(o.value)
  ELSE Return(plan)

(***************************************************************************)
(* AIOperationsAssistant.process_request (main.py)                         *)
(***************************************************************************)
\* the except clause of process_request with a fixed text in errors
FailedResultFixedText(msg) ==
  PyDict([status |-> PyStr("failed"),
          results |-> PyDict(EmptyRec),
          errors |-> PyList(<<PyStr("Request processing failed")>>),
          missing_fields |-> PyList(<<>>)])

\* the except clause of process_request
FailedResult(msg) ==
  PyDict([status |-> PyStr("failed"),
          results |-> PyDict(EmptyRec),
          errors |-> PyList(<<PyStr(msg)>>),
          missing_fields |-> PyList(<<>>)])

\* process_request without its except clause
process_request_end_reraises(o) == o

\* how process_request ends when its try block ended with outcome o
process_request_end(o) ==
  IF o.kind = "raise" /\ CaughtAsException(o.exc) THEN Return(FailedResult(o.msg)) ELSE o

\* the lines of process_request after verify_and_format returned
\* final_output: the log line reads final_output['status']
process_request_tail(final_output) ==
  IF ~IsDict(final_output)
    THEN Raise("TypeError", "indices must be integers")
  ELSE IF "status" \notin DOMAIN final_output.val
    THEN Raise("KeyError", "'status'")
  ELSE Return(final_output)

(***************************************************************************)
(* Inputs                                                                  *)
(***************************************************************************)
Step(tool, action, params) ==
  PyDict([tool |-> PyStr(tool), action |-> PyStr(action), params |-> params])

SearchParams == PyDict([query |-> PyStr("python"), limit |-> PyInt(3)])
RepoParams == PyDict([owner |-> PyStr("octo"), repo |-> PyStr("hello")])
CityParams == PyDict([city |-> PyStr("Delhi")])

\* the steps plans are made of: the four registered actions with fitting
\* params, a call with a wrong keyword, one with a missing argument, an
\* unknown tool, and an action the tool does not have
StepInputs ==
  {Step("github", "search_repos", SearchParams),
   Step("github", "get_repo_info", RepoParams),
   Step("weather", "get_weather", CityParams),
   Step("weather", "get_forecast", CityParams),
   Step("github", "search_repos", PyDict([q |-> PyStr("python")])),
   Step("weather", "get_weather", PyDict(EmptyRec)),
   Step("slack", "search_repos", SearchParams),
   Step("weather", "search_repos", SearchParams)}

\* {"steps": [...]} with at most n steps
PlansUpTo(n) ==
  {PyDict([steps |-> PyList(seq)]) : seq \in UNION {[1..m -> StepInputs] : m \in 0..n}}

\* the plans execute_plan is called with directly; {} has no steps key
PlanInputs == PlansUpTo(MaxSteps) \cup {PyDict(EmptyRec)}

\* what generate_json can end with when the Planner calls it
PlannerLLMOutcomes ==
  {Raise("RuntimeError", "LLM generation failed"),
   Raise("ValueError", "LLM did not return valid JSON"),
   Return(PyList(<<>>)),
   Return(PyDict(EmptyRec)),
   Return(PyDict([steps |-> PyStr("none")])),
   Return(PyDict([steps |-> PyList(<<PyStr("github")>>)])),
   Return(PyDict([steps |-> PyList(<<PyDict([tool |-> PyStr("github"),
                                             action |-> PyStr("search_repos")])>>)]))}
  \cup {Return(p) : p \in PlansUpTo(MaxPlanSteps)}

\* what generate_json can end with when the Verifier calls it
VerifierLLMOutcomes ==
  {Raise("RuntimeError", "LLM generation failed"),
   Raise("ValueError", "LLM did not return valid JSON"),
   Return(PyDict([status |-> PyStr("partial"),
                  results |-> PyDict([github_repos |-> PyList(<<>>)]),
                  missing_fields |-> PyList(<<PyStr("weather")>>),
                  errors |-> PyList(<<PyStr("1 step(s) failed")>>)])),
   Return(PyDict([status |-> PyStr("success"), results |-> PyDict(EmptyRec)])),
   Return(PyDict([status |-> PyStr("incomplete"), results |-> PyList(<<>>)])),
   Return(PyDict([results |-> PyDict(EmptyRec)])),
   Return(PyDict([status |-> PyStr("failed")])),
   Return(PyDict(EmptyRec)),
   Return(PyList(<<>>)),
   Return(PyList(<<PyStr("status"), PyStr("results")>>)),
   Return(PyStr("status: failed")),
   Return(PyNone)}

\* no call was made
NoCall == [kind |-> "none"]

\* entries of the results of the reports verify_and_format is called with
\* directly: values the tools and the Executor produce, under the keys the
\* Executor stores them under
EntryInputs ==
  {[key |-> "github_search_repos", value |-> PyList(<<Repo(1)>>)],
   [key |-> "github_search_repos", value |-> GitHubFallback("Request timeout")],
   [key |-> "github_search_repos_1", value |-> PyList(<<>>)],
   [key |-> "github_get_repo_info", value |-> PyDict([error |-> PyStr("API error: 404")])],
   [key |-> "weather_get_weather", value |-> WeatherFallback("Request timeout")],
   [key |-> "weather_get_weather",
    value |-> PyDict([error |-> PyBool(TRUE),
                      message |-> PyStr("Invalid parameters: get_weather() missing required positional argument")])],
   [key |-> "weather_get_forecast",
    value |-> PyDict([city |-> PyStr("Delhi"),
                      forecast |-> PyList(<<>>),
                      error |-> PyStr("Forecast not implemented")])],
   [key |-> "weather_get_weather_1",
    value |-> PyDict([city |-> PyStr("Delhi"), temperature |-> PyInt(25),
                      condition |-> PyStr("Clear")])],
   [key |-> "github_get_repo_info_1",
    value |-> PyDict([name |-> PyStr("octo/hello"), stars |-> PyInt(0),
                      error |-> PyBool(FALSE)])],
   [key |-> "error_step_0",
    value |-> PyDict([error |-> PyBool(TRUE),
                      message |-> PyStr("Unknown tool: slack"),
                      step |-> Step("slack", "search_repos", SearchParams)])]}

\* the reports verify_and_format is called with directly
ReportInputs ==
  {[steps_executed |-> e, steps_failed |-> f, results |-> seq] :
     e \in 0..MaxCount, f \in 0..MaxCount,
     seq \in {q \in UNION {[1..m -> EntryInputs] : m \in 0..MaxEntries} :
               \A j, k \in 1..Len(q) : j # k => q[j].key # q[k].key}}

\* the verdicts retry_failed_steps is called with: what verify_and_format
\* returns for a report without steps, one of a search with a hit and one
\* of a search that fell back
VerdictInputs ==
  LET reports == {EmptyReport,
                  [steps_executed |-> 1, steps_failed |-> 0,
                   results |-> <<[key |-> "github_search_repos",
                                  value |-> PyList(<<Repo(1)>>)]>>],
                  [steps_executed |-> 1, steps_failed |-> 1,
                   results |-> <<[key |-> "github_search_repos",
                                  value |-> GitHubFallback("Request timeout")]>>]}
      verdicts == {verify_and_format(r, o) : r \in reports, o \in VerifierLLMOutcomes}
  IN {v.value : v \in {w \in verdicts : w.kind = "return"}}

\* the plans of the requests that are served at the same time
ConcurrentPlans ==
  {PyDict([steps |-> PyList(<<Step("weather", "get_weather", CityParams)>>)]),
   PyDict([steps |-> PyList(<<Step("github", "get_repo_info", RepoParams),
                              Step("weather", "get_forecast", CityParams)>>)]),
   PyDict([steps |-> PyList(<<Step("github", "get_repo_info", RepoParams),
                              Step("github", "get_repo_info", RepoParams)>>)])}

\* the plans refine_plan is called with: no step, one step, and the two
\* steps of the example of create_plan's docstring
OriginalPlans ==
  {PyDict([steps |-> PyList(<<>>)]),
   PyDict([steps |-> PyList(<<Step("github", "get_repo_info", RepoParams)>>)]),
   PyDict([steps |-> PyList(<<Step("github", "search_repos", SearchParams),
                              Step("weather", "get_weather", CityParams)>>)])}

(***************************************************************************)
(* State                                                                   *)
(***************************************************************************)
VARIABLES
  pc,         \* "idle", "executing", "executed", "done", "raised"
  entry,      \* the entry point that was called
  api_key,    \* WeatherTool.api_key is set
  plan,       \* the plan execute_plan walks
  i,          \* index of the next step of the loop of execute_plan
  results,    \* the report execute_plan builds
  log,        \* history: how the _execute_step call of each step ended
  verdict,    \* how verify_and_format ended
  ret,        \* how the entry point ended
  llm_reply,  \* history: how the generate_json call of the Verifier ended
  plan_reply, \* history: how the generate_json call of the Planner ended
  basic,      \* history: what _basic_validation returned
  again,      \* a second verify_and_format call on the same report
  reqs,       \* the locals of the calls of two requests served by the same
              \* Executor and Verifier instances
  tool_call,  \* a tool action called on its own: its locals, the transport
              \* outcomes it met and the pauses it took
  tool_report \* the report of the execute_plan iteration that made that call,
              \* and what _basic_validation says of it

vars == <<pc, entry, api_key, plan, i, results, log, verdict, ret, llm_reply,
          plan_reply, basic, again, reqs, tool_call, tool_report>>

\* the variables the first call of an entry point does not write
later == <<again, reqs, tool_call, tool_report>>

\* no tool action has been called; retry_count is the argument of the two
\* actions that have the parameter
NoToolCall ==
  [pc |-> "idle", action |-> "none", retry_count |-> 0, attempt |-> 0,
   transport |-> <<>>, slept |-> <<>>, ret |-> NoCall]

\* the locals of a request that has not called execute_plan yet
IdleRequest ==
  [pc |-> "idle", plan |-> PyNone, i |-> 0, results |-> EmptyReport, log |-> <<>>,
   llm_reply |-> NoCall, verdict |-> NoCall]

Init ==
  /\ pc = "idle"
  /\ entry = "none"
  /\ api_key \in BOOLEAN
  /\ plan = PyNone
  /\ i = 0
  /\ results = EmptyReport
  /\ log = <<>>
  /\ verdict = NoCall
  /\ ret = NoCall
  /\ llm_reply = NoCall
  /\ plan_reply = NoCall
  /\ basic = NoCall
  /\ again = NoCall
  /\ reqs = [r \in 1..2 |-> IdleRequest]
  /\ tool_call = NoToolCall
  /\ tool_report = NoCall

\* pc after the entry point ended with outcome o
EndPc(o) == IF o.kind = "return" THEN "done" ELSE "raised"

(***************************************************************************)
(* Actions                                                                 *)
(***************************************************************************)
\* a caller calls execute_plan(p)
CallExecutePlan ==
  /\ pc = "idle"
  /\ \E p \in PlanInputs : plan' = p
  /\ entry' = "execute_plan"
  /\ pc' = "executing"
  /\ i' = 0
  /\ results' = EmptyReport
  /\ log' = <<>>
  /\ UNCHANGED <<api_key, verdict, ret, llm_reply, plan_reply, basic>>
  /\ UNCHANGED later

\* process_request up to the call of execute_plan: create_plan, with the
\* except clause of process_request when it raises
CreatePlan ==
  /\ pc = "idle"
  /\ entry' = "process_request"
  /\ \E o \in PlannerLLMOutcomes :
       LET created == create_plan(o)
       IN /\ plan_reply' = o
          /\ IF created.kind = "return"
               THEN /\ plan' = created.value
                    /\ pc' = "executing"
                    /\ ret' = ret
               ELSE /\ plan' = plan
                    /\ ret' = process_request_end(created)
                    /\ pc' = EndPc(process_request_end(created))
  /\ i' = 0
  /\ results' = EmptyReport
  /\ log' = <<>>
  /\ UNCHANGED <<api_key, verdict, llm_reply, basic>>
  /\ UNCHANGED later

\* one iteration of the loop of execute_plan
ExecuteStep ==
  /\ pc = "executing"
  /\ i < Len(PlanSteps(plan))
  /\ LET step == StepOfIteration(plan, i)
     IN \E o \in (IF IsDict(step) THEN execute_step(step, api_key)
                  ELSE {Raise("AttributeError", "object has no attribute 'get'")}) :
          LET body == IF IsDict(step) THEN StepBody(results, i, step, o) ELSE o
              escaped == IF entry = "process_request" THEN process_request_end(body) ELSE body
          IN /\ log' = Append(log, o)
             /\ IF body.kind = "return"
                  THEN /\ results' = body.value
                       /\ i' = i + 1
                       /\ UNCHANGED <<pc, ret>>
                  ELSE /\ ret' = escaped
                       /\ pc' = EndPc(escaped)
                       /\ UNCHANGED <<results, i>>
  /\ plan' = PlanAfterStep(plan, StepOfIteration(plan, i))
  /\ UNCHANGED <<entry, api_key, verdict, llm_reply, plan_reply, basic>>
  /\ UNCHANGED later

\* the loop of execute_plan is over: the report is returned
ReturnReport ==
  /\ pc = "executing"
  /\ i = Len(PlanSteps(plan))
  /\ pc' = "executed"
  /\ ret' = IF entry = "execute_plan" THEN Return(results) ELSE ret
  /\ UNCHANGED <<entry, api_key, plan, i, results, log, verdict, llm_reply,
                 plan_reply, basic>>
  /\ UNCHANGED later

\* process_request handing the Verifier whatever the Executor has so far
VerifyAndFormatEarly ==
  /\ pc \in {"executing", "executed"}
  /\ entry = "process_request"
  /\ \E o \in (IF NeedsLLM(results) THEN VerifierLLMOutcomes ELSE {NoCall}) :
       LET verified == verify_and_format(results, o)
           tail == IF verified.kind = "return"
                     THEN process_request_tail(verified.value)
                     ELSE verified
       IN /\ verdict' = verified
          /\ ret' = process_request_end(tail)
          /\ pc' = EndPc(process_request_end(tail))
          /\ llm_reply' = o
  /\ basic' = basic_validation(results)
  /\ results' = ReportAfterVerify(results)
  /\ UNCHANGED <<entry, api_key, plan, i, log, plan_reply>>
  /\ UNCHANGED later

\* process_request from the call of verify_and_format to its return
VerifyAndFormat ==
  /\ pc = "executed"
  /\ entry = "process_request"
  /\ \E o \in (IF NeedsLLM(results) THEN VerifierLLMOutcomes ELSE {NoCall}) :
       LET verified == verify_and_format(results, o)
           tail == IF verified.kind = "return"
                     THEN process_request_tail(verified.value)
                     ELSE verified
       IN /\ verdict' = verified
          /\ ret' = process_request_end(tail)
          /\ pc' = EndPc(process_request_end(tail))
          /\ llm_reply' = o
  /\ basic' = basic_validation(results)
  /\ results' = ReportAfterVerify(results)
  /\ UNCHANGED <<entry, api_key, plan, i, log, plan_reply>>
  /\ UNCHANGED later

\* a caller calls execute_single_step(tool, action, params); plan keeps
\* the step the call built
ExecuteSingleStep ==
  /\ pc = "idle"
  /\ entry' = "execute_single_step"
  /\ \E s \in StepInputs :
       LET step == PyDict([tool |-> s.val.tool, action |-> s.val.action,
                           params |-> s.val.params])
       IN \E o \in execute_step(step, api_key) :
            /\ plan' = PyDict([steps |-> PyList(<<step>>)])
            /\ log' = <<o>>
            /\ ret' = o
            /\ pc' = EndPc(o)
  /\ UNCHANGED <<api_key, i, results, verdict, llm_reply, plan_reply, basic>>
  /\ UNCHANGED later

\* a caller calls create_plan(user_input)
CallCreatePlan ==
  /\ pc = "idle"
  /\ entry' = "create_plan"
  /\ \E o \in PlannerLLMOutcomes :
       /\ plan_reply' = o
       /\ ret' = create_plan(o)
       /\ plan' = IF create_plan(o).kind = "return" THEN create_plan(o).value ELSE plan
       /\ pc' = EndPc(create_plan(o))
  /\ UNCHANGED <<api_key, i, results, log, verdict, llm_reply, basic>>
  /\ UNCHANGED later

\* a caller calls refine_plan(p, feedback); plan keeps the original plan
CallRefinePlan ==
  /\ pc = "idle"
  /\ entry' = "refine_plan"
  /\ \E p \in OriginalPlans, o \in PlannerLLMOutcomes :
       /\ plan' = p
       /\ plan_reply' = o
       /\ ret' = refine_plan(p, o)
       /\ pc' = EndPc(refine_plan(p, o))
  /\ UNCHANGED <<api_key, i, results, log, verdict, llm_reply, basic>>
  /\ UNCHANGED later

\* a caller calls verify_and_format(r)
CallVerifyAndFormat ==
  /\ pc = "idle"
  /\ entry' = "verify_and_format"
  /\ \E r \in ReportInputs :
       \E o \in (IF NeedsLLM(r) THEN VerifierLLMOutcomes ELSE {NoCall}) :
         /\ results' = ReportAfterVerify(r)
         /\ basic' = basic_validation(r)
         /\ llm_reply' = o
         /\ verdict' = verify_and_format(r, o)
         /\ ret' = verify_and_format(r, o)
         /\ pc' = EndPc(verify_and_format(r, o))
  /\ UNCHANGED <<api_key, plan, i, log, plan_reply>>
  /\ UNCHANGED later

\* the caller of verify_and_format calls it once more with the same
\* report, after a first call that resolved without an answer of the LLM
\* capability
CallVerifyAndFormatAgain ==
  /\ pc = "done"
  /\ entry = "verify_and_format"
  /\ again = NoCall
  /\ llm_reply = NoCall \/ llm_reply.kind = "raise"
  /\ \E o \in (IF NeedsLLM(results) THEN VerifierLLMOutcomes ELSE {NoCall}) :
       again' = [kind |-> "call", reply |-> o, verdict |-> verify_and_format(results, o)]
  /\ results' = ReportAfterVerify(results)
  /\ UNCHANGED <<pc, entry, api_key, plan, i, log, verdict, ret, llm_reply,
                 plan_reply, basic, reqs, tool_call, tool_report>>

\* a caller calls retry_failed_steps(v, executor); verdict keeps v and log
\* the steps handed to the executor
CallRetryFailedSteps ==
  /\ pc = "idle"
  /\ entry' = "retry_failed_steps"
  /\ \E v \in VerdictInputs :
       /\ verdict' = Return(v)
       /\ ret' = retry_failed_steps(v)
       /\ log' = RetriedSteps(v)
       /\ pc' = EndPc(retry_failed_steps(v))
  /\ UNCHANGED <<api_key, plan, i, results, llm_reply, plan_reply, basic>>
  /\ UNCHANGED later

\* one report kept on the Executor instance and used by every call
AccumulatorShared(frames, r) == frames[1].results

\* the report an execute_plan call adds to: `results`, a local of the call
Accumulator(frames, r) == frames[r].results

\* request r calls execute_plan(p)
ReqExecutePlan(r) ==
  /\ reqs[r].pc = "idle"
  /\ \E p \in ConcurrentPlans :
       reqs' = [reqs EXCEPT ![r] = [IdleRequest EXCEPT !.pc = "executing", !.plan = p]]
  /\ UNCHANGED <<pc, entry, api_key, plan, i, results, log, verdict, ret, llm_reply,
                 plan_reply, basic, again, tool_call, tool_report>>

\* one iteration of the loop of the execute_plan call of request r
ReqExecuteStep(r) ==
  /\ reqs[r].pc = "executing"
  /\ reqs[r].i < Len(PlanSteps(reqs[r].plan))
  /\ LET step == StepOfIteration(reqs[r].plan, reqs[r].i)
     IN \E o \in execute_step(step, api_key) :
          LET body == StepBody(Accumulator(reqs, r), reqs[r].i, step, o)
          IN reqs' = [reqs EXCEPT
                        ![r].log = Append(@, o),
                        ![r].results = IF body.kind = "return" THEN body.value ELSE @,
                        ![r].i = IF body.kind = "return" THEN @ + 1 ELSE @,
                        ![r].pc = IF body.kind = "return" THEN @ ELSE "raised",
                        ![r].plan = PlanAfterStep(@, step)]
  /\ UNCHANGED <<pc, entry, api_key, plan, i, results, log, verdict, ret, llm_reply,
                 plan_reply, basic, again, tool_call, tool_report>>

\* the execute_plan call of request r returns its report
ReqReturnReport(r) ==
  /\ reqs[r].pc = "executing"
  /\ reqs[r].i = Len(PlanSteps(reqs[r].plan))
  /\ reqs' = [reqs EXCEPT ![r].pc = "executed"]
  /\ UNCHANGED <<pc, entry, api_key, plan, i, results, log, verdict, ret, llm_reply,
                 plan_reply, basic, again, tool_call, tool_report>>

\* request r calls verify_and_format with its report
ReqVerifyAndFormat(r) ==
  /\ reqs[r].pc = "executed"
  /\ \E o \in (IF NeedsLLM(reqs[r].results) THEN VerifierLLMOutcomes ELSE {NoCall}) :
       reqs' = [reqs EXCEPT
                  ![r].llm_reply = o,
                  ![r].verdict = verify_and_format(reqs[r].results, o),
                  ![r].results = ReportAfterVerify(@),
                  ![r].pc = EndPc(verify_and_format(reqs[r].results, o))]
  /\ UNCHANGED <<pc, entry, api_key, plan, i, results, log, verdict, ret, llm_reply,
                 plan_reply, basic, again, tool_call, tool_report>>

\* the value carries the error field of a fallback
ErrorMarked(value) ==
  \/ IsDict(value) /\ "error" \in DOMAIN value.val
  \/ /\ IsList(value)
     /\ Len(value.val) = 1
     /\ IsDict(value.val[1])
     /\ "error" \in DOMAIN value.val[1].val

\* what the call-level model of an action has for an answer with data
Fetched(outcomes) == {o.value : o \in {x \in outcomes : x.kind = "return" /\ ~ErrorMarked(x.value)}}

\* search_repos(query, limit, retry_count=rc) up to its loop
CallSearchRepos ==
  /\ tool_call.pc = "idle"
  /\ \E rc \in 0..MaxRetry :
       tool_call' = [NoToolCall EXCEPT !.pc = "loop", !.action = "search_repos",
                                       !.retry_count = rc]
  /\ UNCHANGED <<pc, entry, api_key, plan, i, results, log, verdict, ret, llm_reply,
                 plan_reply, basic, again, reqs, tool_report>>

\* get_weather(city, retry_count=rc) up to its loop; without an API key it
\* returns before the loop
CallGetWeather ==
  /\ tool_call.pc = "idle"
  /\ \E rc \in 0..MaxRetry :
       tool_call' =
         IF api_key
           THEN [NoToolCall EXCEPT !.pc = "loop", !.action = "get_weather",
                                   !.retry_count = rc]
           ELSE [NoToolCall EXCEPT !.pc = "returned", !.action = "get_weather",
                                   !.retry_count = rc,
                                   !.ret = Return(WeatherFallback("API key not configured"))]
  /\ UNCHANGED <<pc, entry, api_key, plan, i, results, log, verdict, ret, llm_reply,
                 plan_reply, basic, again, reqs, tool_report>>

\* one iteration of the loop of search_repos or get_weather
RetryLoopAttempt ==
  /\ tool_call.pc = "loop"
  /\ tool_call.attempt < Attempts(tool_call.retry_count)
  /\ \E outcome \in TransportOutcomes :
     \E fetched \in (IF tool_call.action = "search_repos"
                       THEN Fetched(search_repos(SearchParams))
                       ELSE Fetched(get_weather(CityParams, TRUE))) :
       LET step == IF tool_call.action = "search_repos"
                     THEN search_repos_attempt(outcome, tool_call.attempt,
                                               tool_call.retry_count, fetched)
                     ELSE get_weather_attempt(outcome, tool_call.attempt,
                                              tool_call.retry_count,
                                              PyFormat(CityParams.val.city), fetched)
       IN tool_call' =
            IF step.kind = "return"
              THEN [tool_call EXCEPT !.transport = Append(@, outcome),
                                     !.pc = "returned",
                                     !.ret = Return(step.value)]
              ELSE [tool_call EXCEPT !.transport = Append(@, outcome),
                                     !.slept = Append(@, step.seconds),
                                     !.attempt = @ + 1]
  /\ UNCHANGED <<pc, entry, api_key, plan, i, results, log, verdict, ret, llm_reply,
                 plan_reply, basic, again, reqs, tool_report>>

\* the loop of search_repos or get_weather ran out: the line after it
RetryLoopEnd ==
  /\ tool_call.pc = "loop"
  /\ ~(tool_call.attempt < Attempts(tool_call.retry_count))
  /\ tool_call' =
       [tool_call EXCEPT
          !.pc = "returned",
          !.ret = Return(IF tool_call.action = "search_repos"
                           THEN GitHubFallback("Max retries exceeded")
                           ELSE WeatherFallback("Max retries exceeded"))]
  /\ UNCHANGED <<pc, entry, api_key, plan, i, results, log, verdict, ret, llm_reply,
                 plan_reply, basic, again, reqs, tool_report>>

\* get_repo_info(owner, repo): one request, then the return
CallGetRepoInfo ==
  /\ tool_call.pc = "idle"
  /\ \E outcome \in TransportOutcomes :
     \E fetched \in Fetched(get_repo_info(RepoParams)) :
       tool_call' = [NoToolCall EXCEPT
                       !.pc = "returned", !.action = "get_repo_info",
                       !.transport = <<outcome>>,
                       !.ret = Return(get_repo_info_request(outcome, fetched))]
  /\ UNCHANGED <<pc, entry, api_key, plan, i, results, log, verdict, ret, llm_reply,
                 plan_reply, basic, again, reqs, tool_report>>

\* get_weather_forecast(city): no request
CallGetWeatherForecast ==
  /\ tool_call.pc = "idle"
  /\ \E o \in get_weather_forecast(CityParams) :
       tool_call' = [NoToolCall EXCEPT
                       !.pc = "returned", !.action = "get_weather_forecast", !.ret = o]
  /\ UNCHANGED <<pc, entry, api_key, plan, i, results, log, verdict, ret, llm_reply,
                 plan_reply, basic, again, reqs, tool_report>>

\* the step whose dispatch calls the action of tool_call
ToolStep(action) ==
  CASE action = "search_repos" -> Step("github", "search_repos", SearchParams)
    [] action = "get_repo_info" -> Step("github", "get_repo_info", RepoParams)
    [] action = "get_weather" -> Step("weather", "get_weather", CityParams)
    [] OTHER -> Step("weather", "get_forecast", CityParams)

\* the report when the iteration starts: no step yet, or one earlier step
\* of the same action that brought data
PriorReports(step) ==
  {EmptyReport}
    \cup {StepBody(EmptyReport, 0, step, Return(v)).value :
            v \in Fetched(execute_step(step, TRUE))}

\* the iteration of execute_plan whose _execute_step call made the tool
\* call of tool_call, followed by _basic_validation of the report
ExecuteToolStep ==
  /\ tool_call.pc = "returned"
  /\ tool_report = NoCall
  /\ LET step == ToolStep(tool_call.action)
     IN \E prior \in PriorReports(step) :
          LET body == StepBody(prior, prior.steps_executed, step,
                               ConvertTypeError(tool_call.ret))
              report == IF body.kind = "return" THEN body.value ELSE prior
          IN tool_report' = [kind |-> "call", before |-> prior, end |-> body,
                             report |-> report,
                             validation |-> basic_validation(report)]
  /\ UNCHANGED <<pc, entry, api_key, plan, i, results, log, verdict, ret, llm_reply,
                 plan_reply, basic, again, reqs, tool_call>>

\* the Executor called directly
Next ==
  \/ CallExecutePlan
  \/ ExecuteStep
  \/ ReturnReport
  \/ ExecuteSingleStep

Spec == Init /\ [][Next]_vars

\* process_request
NextPipeline ==
  \/ CreatePlan
  \/ ExecuteStep
  \/ ReturnReport
  \/ VerifyAndFormat

SpecPipeline == Init /\ [][NextPipeline]_vars

\* the Planner and the Verifier called directly
NextAgents ==
  \/ CallCreatePlan
  \/ CallRefinePlan
  \/ CallVerifyAndFormat
  \/ CallVerifyAndFormatAgain
  \/ CallRetryFailedSteps

SpecAgents == Init /\ [][NextAgents]_vars

\* two requests against the same Executor and Verifier instances, their
\* calls interleaved step by step
NextConcurrent ==
  \E r \in 1..2 :
    \/ ReqExecutePlan(r)
    \/ ReqExecuteStep(r)
    \/ ReqReturnReport(r)
    \/ ReqVerifyAndFormat(r)

SpecConcurrent == Init /\ [][NextConcurrent]_vars

\* a registered tool action called on its own, against a transport that
\* answers each request as it likes
NextTools ==
  \/ CallSearchRepos
  \/ CallGetWeather
  \/ RetryLoopAttempt
  \/ RetryLoopEnd
  \/ CallGetRepoInfo
  \/ CallGetWeatherForecast

\* a call that has started runs on: nothing in the code suspends it
SpecTools == Init /\ [][NextTools]_vars /\ WF_vars(NextTools)

\* a tool action called by a step of execute_plan, the report then validated
NextToolSteps ==
  \/ NextTools
  \/ ExecuteToolStep

SpecToolSteps == Init /\ [][NextToolSteps]_vars

(***************************************************************************)
(* Properties                                                              *)
(***************************************************************************)
\* the steps of the plan in execution, and the step at 0-based index j
Steps == PlanSteps(plan)
StepAt(j) == Steps[j + 1]

\* "<tool>_<action>"
ShortKey(step) == step.val.tool.val \o "_" \o step.val.action.val

\* the _execute_step call of the step at index j returned normally
Returned(j) == log[j + 1].kind = "return"

\* the step names a tool or an action the registry does not have
UnknownStep(step) ==
  \/ step.val.tool.val \notin {"github", "weather"}
  \/ /\ step.val.tool.val = "github"
     /\ step.val.action.val \notin {"search_repos", "get_repo_info"}
  \/ /\ step.val.tool.val = "weather"
     /\ step.val.action.val \notin {"get_weather", "get_forecast"}

\* keys of the synthetic entries
IsErrorStepKey(key) == Len(key) > 11 /\ SubSeq(key, 1, 11) = "error_step_"
ErrorStepKeys(report) == {k \in 1..Len(report.results) : IsErrorStepKey(report.results[k].key)}

\* the entry an iteration of the loop added to the report
Added(before, after) == after.results[Len(before.results) + 1]

\* an iteration of the loop of execute_plan takes place in this step
Iteration == pc = "executing" /\ log' # log

\* the iteration only adds an entry: the report's earlier entries stay
KeepsEntries ==
  /\ Len(results'.results) = Len(results.results) + 1
  /\ SubSeq(results'.results, 1, Len(results.results)) = results.results

\* C1: execute_plan never raises for a step's failure: whatever each step's
\* call ends with, execute_plan returns its report, every step of the plan
\* was attempted, and every step whose call returned has the value it
\* returned recorded under its own key, whatever the other steps did.
C1_FailureIsolation ==
  entry = "execute_plan" =>
    /\ pc # "raised"
    /\ pc = "executed" =>
         /\ ret = Return(results)
         /\ Len(log) = Len(Steps)
         /\ \A j \in 0..(Len(Steps) - 1) :
              Returned(j) =>
                \E k \in 1..Len(results.results) :
                  /\ results.results[k].value = log[j + 1].value
                  /\ results.results[k].key \in
                       {ShortKey(StepAt(j)), ShortKey(StepAt(j)) \o "_" \o ToString(j)}

\* C1 witness: a returned report in which a step returned normally after
\* an earlier step raised out of its bound action
C1_Witness ==
  /\ entry = "execute_plan"
  /\ pc = "executed"
  /\ \E j, m \in 0..(Len(Steps) - 1) :
       /\ j < m
       /\ log[j + 1] = UnexpectedRaise
       /\ Returned(m)
       /\ ~Truthy(DictGet(log[m + 1].value, "error"))

\* a stage under process_request failed: create_plan gave no plan, or
\* verify_and_format gave no mapping
WorstCase ==
  \/ plan = PyNone
  \/ verdict.kind = "raise"
  \/ verdict.kind = "return" /\ ~IsDict(verdict.value)

C3_OneEntryPerStep ==
  (entry = "execute_plan" /\ pc \in {"executing", "executed"}) =>
    /\ Len(results.results) = Len(log)
    /\ Cardinality(KeysOf(results.results)) = Len(results.results)
    /\ \A j \in 0..(Len(log) - 1) :
         IF Returned(j)
           THEN results.results[j + 1].value = log[j + 1].value
           ELSE /\ results.results[j + 1].key = "error_step_" \o ToString(j)
                /\ results.results[j + 1].value.val.step = StepAt(j)
    /\ pc = "executed" => Len(results.results) = Len(Steps)

\* C3 witness: a returned report of a plan of three steps with the same
\* tool and action
C3_Witness ==
  /\ entry = "execute_plan"
  /\ pc = "executed"
  /\ Len(Steps) = 3
  /\ \A j \in 0..2 : Returned(j) /\ ShortKey(StepAt(j)) = ShortKey(StepAt(0))

\* C4: in a returned report, steps_executed plus the number of synthetic
\* error_step_<i> entries is at most len(plan.steps).
C4_AggregateBound ==
  (entry = "execute_plan" /\ pc = "executed") =>
    results.steps_executed + Cardinality(ErrorStepKeys(results)) <= Len(Steps)

\* C4 witness: a returned report with both an executed step and a
\* synthetic entry
C4_Witness ==
  /\ entry = "execute_plan"
  /\ pc = "executed"
  /\ results.steps_executed > 0
  /\ ErrorStepKeys(results) # {}

\* C5: result-key collision rule: a step whose call returned is stored
\* under "<tool>_<action>" unless an earlier step of the plan with the same
\* tool and action is already stored in the report; only then it is stored
\* under "<tool>_<action>_<its index>".
C5_KeyCollisionRule ==
  (entry = "execute_plan" /\ pc \in {"executing", "executed"}) =>
    \A j \in 0..(Len(log) - 1) :
      Returned(j) =>
        LET used == \E m \in 0..(j - 1) :
                      Returned(m) /\ ShortKey(StepAt(m)) = ShortKey(StepAt(j))
        IN /\ Len(results.results) > j
           /\ results.results[j + 1].key =
                IF used THEN ShortKey(StepAt(j)) \o "_" \o ToString(j)
                ELSE ShortKey(StepAt(j))

\* C5 witness: two steps with the same tool and action have both returned
C5_Witness ==
  /\ entry = "execute_plan"
  /\ pc = "executed"
  /\ \E j, m \in 0..(Len(Steps) - 1) :
       /\ j < m
       /\ Returned(j) /\ Returned(m)
       /\ ShortKey(StepAt(j)) = ShortKey(StepAt(m))
       /\ HasKey(results.results, ShortKey(StepAt(m)) \o "_" \o ToString(m))

\* C6: a step that names a tool or an action the registry does not have
\* is recorded as an error record (error: true, message, step); for it
\* steps_failed grows by exactly 1 and steps_executed does not grow, the
\* entries of the other steps stay as they are and the loop goes on.
C6_UnknownStepIsolated ==
  [][(Iteration /\ UnknownStep(StepAt(i))) =>
       /\ i' = i + 1
       /\ pc' = "executing"
       /\ KeepsEntries
       /\ LET e == Added(results, results')
          IN /\ IsDict(e.value)
             /\ {"error", "message", "step"} \subseteq DOMAIN e.value.val
             /\ e.value.val.error = PyBool(TRUE)
             /\ e.value.val.message.ty = "str"
             /\ e.value.val.step = StepAt(i)
       /\ results'.steps_failed = results.steps_failed + 1
       /\ results'.steps_executed = results.steps_executed]_vars

\* C6 witness: a returned report of a plan with an unknown tool, an
\* unknown action and a step that returned
C6_Witness ==
  /\ entry = "execute_plan"
  /\ pc = "executed"
  /\ \E j, m, n \in 0..(Len(Steps) - 1) :
       /\ StepAt(j).val.tool = PyStr("slack")
       /\ StepAt(m).val.tool = PyStr("weather") /\ UnknownStep(StepAt(m))
       /\ Returned(n)
  /\ results.steps_failed = 2
  /\ results.steps_executed = 1

\* the step names a registered action and its params do not fit the
\* action's named parameters
ParamErrorStep(step) ==
  /\ ~UnknownStep(step)
  /\ BindError(action_map[step.val.tool.val][step.val.action.val], step.val.params) # "ok"

\* the record a parameter-shape error is converted to
IsParamErrorRecord(value) ==
  /\ IsDict(value)
  /\ DOMAIN value.val = {"error", "message"}
  /\ value.val.error = PyBool(TRUE)
  /\ value.val.message.ty = "str"

\* C7: a parameter-shape error of the bound action is not propagated: the
\* step-level dispatch returns {error: true, message}; execute_plan stores
\* it under the step's "<tool>_<action>" key (suffixed on collision, never
\* error_step_<i>), counts the step in steps_executed and in steps_failed,
\* and goes on with the loop; execute_single_step returns the same record.
C7_ParameterErrorConverted ==
  [][/\ (Iteration /\ ParamErrorStep(StepAt(i))) =>
          /\ i' = i + 1
          /\ pc' = "executing"
          /\ KeepsEntries
          /\ Added(results, results').key \in
               {ShortKey(StepAt(i)), ShortKey(StepAt(i)) \o "_" \o ToString(i)}
          /\ IsParamErrorRecord(Added(results, results').value)
          /\ results'.steps_executed = results.steps_executed + 1
          /\ results'.steps_failed = results.steps_failed + 1
     /\ (pc = "idle" /\ entry' = "execute_single_step"
           /\ ParamErrorStep(PlanSteps(plan')[1])) =>
          /\ ret'.kind = "return"
          /\ IsParamErrorRecord(ret'.value)]_vars

\* C7 witness: a returned report whose first step had a parameter-shape
\* error and whose second step returned without error marker
C7_Witness ==
  /\ entry = "execute_plan"
  /\ pc = "executed"
  /\ Len(Steps) >= 2
  /\ ParamErrorStep(StepAt(0))
  /\ IsParamErrorRecord(results.results[1].value)
  /\ ~ParamErrorStep(StepAt(1)) /\ Returned(1)
  /\ results.steps_executed = 2
  /\ results.steps_failed = 1

\* C8: when the call of a step raises an error that is no parameter-shape
\* error, execute_plan records error_step_<i> = {error: true, message,
\* step} for the step's index i; steps_failed grows by 1 and
\* steps_executed does not grow.
C8_OtherErrorRecorded ==
  [][(Iteration /\ log'[Len(log')].kind = "raise" /\ log'[Len(log')].exc # "TypeError") =>
       /\ i' = i + 1
       /\ pc' = "executing"
       /\ KeepsEntries
       /\ Added(results, results') =
            [key |-> "error_step_" \o ToString(i),
             value |-> PyDict([error |-> PyBool(TRUE),
                               message |-> PyStr(log'[Len(log')].msg),
                               step |-> StepAt(i)])]
       /\ results'.steps_failed = results.steps_failed + 1
       /\ results'.steps_executed = results.steps_executed]_vars

\* C8 witness: a returned report whose second step raised out of its
\* bound action and is recorded as error_step_1
C8_Witness ==
  /\ entry = "execute_plan"
  /\ pc = "executed"
  /\ Len(Steps) >= 2
  /\ log[2] = UnexpectedRaise
  /\ HasKey(results.results, "error_step_1")
  /\ results.steps_failed = 1
  /\ results.steps_executed = Len(Steps) - 1

\* a mapping with a truthy error field
HasErrorMarker(d) ==
  /\ IsDict(d)
  /\ "error" \in DOMAIN d.val
  /\ d.val.error \notin {PyNone, PyBool(FALSE), PyInt(0), PyStr(""),
                         PyList(<<>>), PyDict(EmptyRec)}

\* the embedded-error convention: a mapping with a truthy error field, or
\* a non-empty sequence whose first element is one
EmbeddedError(value) ==
  \/ HasErrorMarker(value)
  \/ IsList(value) /\ Len(value.val) > 0 /\ HasErrorMarker(value.val[1])

\* C9: a step whose call returned normally always counts in
\* steps_executed, and counts in steps_failed exactly when the returned
\* value carries the embedded error marker.
C9_OutcomeClassification ==
  [][(Iteration /\ log'[Len(log')].kind = "return") =>
       /\ i' = i + 1
       /\ results'.steps_executed = results.steps_executed + 1
       /\ results'.steps_failed =
            results.steps_failed
              + (IF EmbeddedError(log'[Len(log')].value) THEN 1 ELSE 0)]_vars

\* C9 witness: a returned report of three returned steps: a mapping whose
\* error field is a non-empty string, a sequence whose first element has
\* error: true, and a sequence without marker
C9_Witness ==
  /\ entry = "execute_plan"
  /\ pc = "executed"
  /\ Len(Steps) = 3
  /\ \A j \in 0..2 : Returned(j)
  /\ IsDict(log[1].value) /\ HasErrorMarker(log[1].value)
  /\ log[1].value.val.error.ty = "str"
  /\ IsList(log[2].value) /\ EmbeddedError(log[2].value)
  /\ IsList(log[3].value) /\ ~EmbeddedError(log[3].value)
  /\ results.steps_executed = 3
  /\ results.steps_failed = 2

\* process_request has had verify_and_format look at the report of a plan
\* with zero steps
ZeroStepVerdict ==
  /\ entry = "process_request"
  /\ plan # PyNone
  /\ Len(Steps) = 0
  /\ verdict # NoCall

\* C10 as stated: for a plan with zero steps execute_plan returns exactly
\* {steps_executed: 0, steps_failed: 0, results: {}} and verify_and_format
\* on that report yields status "failed".
C10_AsStated ==
  ZeroStepVerdict =>
    /\ results = EmptyReport
    /\ verdict.kind = "return"
    /\ IsDict(verdict.value)
    /\ verdict.value.val.status = PyStr("failed")

\* C10 amended: for a plan with zero steps execute_plan returns exactly
\* {steps_executed: 0, steps_failed: 0, results: {}}; verify_and_format
\* does not take the deterministic success path for that report but asks
\* the LLM capability: it yields status "failed" when that call raises, and
\* when the call returns a mapping, the status that mapping carries
\* ("partial" when it carries none).
C10_ZeroStepPlan ==
  ZeroStepVerdict =>
    /\ results = EmptyReport
    /\ llm_reply # NoCall
    /\ verdict.kind = "return"
    /\ llm_reply.kind = "raise" =>
         /\ IsDict(verdict.value)
         /\ verdict.value.val.status = PyStr("failed")
    /\ (llm_reply.kind = "return" /\ IsDict(llm_reply.value)) =>
         /\ IsDict(verdict.value)
         /\ verdict.value.val.status =
              (IF "status" \in DOMAIN llm_reply.value.val
                 THEN llm_reply.value.val.status
                 ELSE PyStr("partial"))

\* C10 witness: the LLM call raised on the report of a zero-step plan and
\* the verdict has status "failed"
C10_Witness ==
  /\ ZeroStepVerdict
  /\ results = EmptyReport
  /\ llm_reply.kind = "raise"
  /\ verdict.value.val.status = PyStr("failed")

\* a caller has had verify_and_format look at a report
Verified == entry = "verify_and_format" /\ verdict # NoCall

\* the entries of the report that carry the embedded error marker
Flagged == {k \in 1..Len(results.results) : EmbeddedError(results.results[k].value)}

\* C11: basic validation classifies any report as "failed" iff
\* steps_executed = 0; otherwise "partial" iff steps_failed > 0 or some
\* entry carries the embedded error marker; otherwise "success". Every
\* detected error adds one string to errors, and errors is empty exactly
\* when the status is "success".
C11_BasicValidationClassification ==
  Verified =>
    /\ basic.status =
         (IF results.steps_executed = 0 THEN "failed"
          ELSE IF results.steps_failed > 0 \/ Flagged # {} THEN "partial"
          ELSE "success")
    /\ Len(basic.errors) =
         (IF results.steps_failed > 0 THEN 1 ELSE 0)
           + (IF results.steps_executed = 0 THEN 1 ELSE 0)
           + Cardinality(Flagged)
    /\ (basic.errors = <<>>) <=> (basic.status = "success")

\* C11 witness: a report with executed steps and steps_failed = 0 whose
\* only marker is in the first element of a sequence is "partial" with one
\* error string
C11_Witness ==
  /\ Verified
  /\ results.steps_executed > 0
  /\ results.steps_failed = 0
  /\ Cardinality(Flagged) = 1
  /\ \A k \in Flagged : IsList(results.results[k].value)
  /\ basic.status = "partial"
  /\ Len(basic.errors) = 1

\* the value the LLM capability returned names both fields, as `in` sees
\* it: keys of a mapping, elements of a sequence, substrings of a string
NamesBothFields(value) ==
  CASE value.ty = "dict" -> {"status", "results"} \subseteq DOMAIN value.val
    [] value.ty = "list" -> /\ \E k \in 1..Len(value.val) : value.val[k] = PyStr("status")
                            /\ \E k \in 1..Len(value.val) : value.val[k] = PyStr("results")
    [] value.ty = "str" -> Contains(value.val, "status") /\ Contains(value.val, "results")
    [] OTHER -> FALSE

\* the LLM verification path failed: the generate_json call raised (an LLM
\* error, or text that is no JSON), or it returned a value that is no
\* mapping and cannot be completed
LLMPathFailed ==
  \/ llm_reply.kind = "raise"
  \/ /\ llm_reply.kind = "return"
     /\ ~IsDict(llm_reply.value)
     /\ ~NamesBothFields(llm_reply.value)

\* C12: fallback guarantee: whenever the LLM verification path raises or
\* the LLM's text is no usable JSON, verify_and_format does not raise and
\* returns exactly what the deterministic formatter produces from the
\* basic-validation verdict for the same report.
C12_FallbackGuarantee ==
  (Verified /\ LLMPathFailed) =>
    /\ pc = "done"
    /\ verdict.kind = "return"
    /\ verdict.value = format_results(results, basic)
    /\ DOMAIN verdict.value.val = {"status", "results", "missing_fields", "errors"}
    /\ verdict.value.val.status = PyStr(basic.status)
    /\ verdict.value.val.errors = StrList(basic.errors)

\* C12 witness: the generate_json call raised on a report with a failed
\* step and the verdict is the "partial" one of basic validation
C12_Witness ==
  /\ Verified
  /\ llm_reply.kind = "raise"
  /\ results.steps_executed > 0
  /\ results.steps_failed > 0
  /\ verdict.kind = "return"
  /\ verdict.value.val.status = PyStr("partial")
  /\ Len(verdict.value.val.errors.val) > 0

\* the report has executed steps, no failed step and no entry with the
\* embedded error marker
CleanReport ==
  /\ results.steps_executed > 0
  /\ results.steps_failed = 0
  /\ Flagged = {}

\* C13: when basic validation yields "success", verify_and_format returns
\* the deterministic formatter's output and never calls the LLM capability;
\* the LLM capability is called only when basic validation yields "partial"
\* or "failed".
C13_NoLLMOnSuccess ==
  Verified =>
    /\ (basic.status = "success") <=> CleanReport
    /\ (llm_reply = NoCall) <=> CleanReport
    /\ CleanReport =>
         /\ verdict = Return(format_results(results, basic))
         /\ verdict.value.val.status = PyStr("success")
         /\ verdict.value.val.errors = PyList(<<>>)
    /\ llm_reply # NoCall => basic.status \in {"partial", "failed"}

\* C13 witness: a clean report with two entries was formatted without a
\* call of the LLM capability
C13_Witness ==
  /\ Verified
  /\ CleanReport
  /\ Len(results.results) = 2
  /\ llm_reply = NoCall
  /\ verdict.kind = "return"
  /\ DOMAIN verdict.value.val.results.val # {}

\* the four fields of a FinalResult
FinalResultFields == {"status", "results", "missing_fields", "errors"}

\* C14: every value returned by verify_and_format and by process_request,
\* on every code path, has the same shape: it contains all four fields
\* status, results, missing_fields and errors.
C14_AsStated ==
  entry = "process_request" =>
    /\ verdict.kind = "return" =>
         /\ IsDict(verdict.value)
         /\ FinalResultFields \subseteq DOMAIN verdict.value.val
    /\ ret.kind = "return" =>
         /\ IsDict(ret.value)
         /\ FinalResultFields \subseteq DOMAIN ret.value.val

\* the status values of a FinalResult
StatusValues == {PyStr("success"), PyStr("partial"), PyStr("failed")}

\* C15: in every FinalResult returned by verify_and_format or
\* process_request, status is one of success, partial, failed and results
\* is a mapping, including when the value comes from the LLM-verified path.
C15_AsStated ==
  entry = "process_request" =>
    /\ verdict.kind = "return" =>
         /\ IsDict(verdict.value)
         /\ {"status", "results"} \subseteq DOMAIN verdict.value.val
         /\ verdict.value.val.status \in StatusValues
         /\ IsDict(verdict.value.val.results)
    /\ ret.kind = "return" =>
         /\ IsDict(ret.value)
         /\ {"status", "results"} \subseteq DOMAIN ret.value.val
         /\ ret.value.val.status \in StatusValues
         /\ IsDict(ret.value.val.results)

\* C16: on the LLM verification path, a parsed LLM output (a mapping) that
\* omits status gets status "partial" and one that omits results gets
\* results {}; the verification returns that value instead of failing, and
\* the fields the LLM did supply are left as returned.
C16_Backfill ==
  (Verified /\ llm_reply.kind = "return" /\ IsDict(llm_reply.value)) =>
    LET supplied == llm_reply.value.val
    IN /\ pc = "done"
       /\ verdict.kind = "return"
       /\ IsDict(verdict.value)
       /\ DOMAIN verdict.value.val = DOMAIN supplied \cup {"status", "results"}
       /\ \A f \in DOMAIN supplied : verdict.value.val[f] = supplied[f]
       /\ "status" \notin DOMAIN supplied => verdict.value.val.status = PyStr("partial")
       /\ "results" \notin DOMAIN supplied => verdict.value.val.results = PyDict(EmptyRec)

\* C16 witness: the LLM supplied only status "failed" and the verdict is
\* {status: "failed", results: {}}
C16_Witness ==
  /\ Verified
  /\ llm_reply = Return(PyDict([status |-> PyStr("failed")]))
  /\ verdict = Return(PyDict([status |-> PyStr("failed"), results |-> PyDict(EmptyRec)]))

\* the structural rules of a plan: an object with a steps sequence whose
\* elements are objects with tool, action and params, the tool being
\* github or weather
AllowedTool(step) == step.val.tool \in {PyStr("github"), PyStr("weather")}
WellFormedStep(step) ==
  /\ step.ty = "dict"
  /\ {"tool", "action", "params"} \subseteq DOMAIN step.val
  /\ AllowedTool(step)
WellFormedPlan(p) ==
  /\ p.ty = "dict"
  /\ "steps" \in DOMAIN p.val
  /\ p.val.steps.ty = "list"
  /\ \A k \in 1..Len(p.val.steps.val) : WellFormedStep(p.val.steps.val[k])

\* C17: create_plan either returns a plan that satisfies every structural
\* rule or fails by raising; it fails whenever the LLM capability raises
\* (an LLM error, or text that is no JSON) or returns a plan that breaks a
\* rule, and a plan it returns is the LLM's plan, never a part of it.
C17_PlanValidOrFails ==
  (entry = "create_plan" /\ pc # "idle") =>
    /\ ret.kind \in {"return", "raise"}
    /\ ret.kind = "return" =>
         /\ WellFormedPlan(ret.value)
         /\ plan_reply = Return(ret.value)
    /\ plan_reply.kind = "raise" => ret = plan_reply
    /\ (plan_reply.kind = "return" /\ ~WellFormedPlan(plan_reply.value)) =>
         /\ ret.kind = "raise"
         /\ ret.exc = "ValueError"

\* C17 witness: the LLM returned a plan of two well-shaped steps of which
\* only the first names an allowed tool, and create_plan raised
C17_Witness ==
  /\ entry = "create_plan"
  /\ plan_reply.kind = "return"
  /\ plan_reply.value.ty = "dict"
  /\ "steps" \in DOMAIN plan_reply.value.val
  /\ plan_reply.value.val.steps.ty = "list"
  /\ Len(plan_reply.value.val.steps.val) = 2
  /\ WellFormedStep(plan_reply.value.val.steps.val[1])
  /\ plan_reply.value.val.steps.val[2].ty = "dict"
  /\ ~AllowedTool(plan_reply.value.val.steps.val[2])
  /\ ret = Raise("ValueError", "Invalid plan structure generated")

\* plan creation failed under process_request: the Planner's generate_json
\* call raised, or returned a plan that breaks a structural rule
PlanCreationFailed ==
  /\ entry = "process_request"
  /\ plan_reply # NoCall
  /\ \/ plan_reply.kind = "raise"
     \/ plan_reply.kind = "return" /\ ~WellFormedPlan(plan_reply.value)

\* C18: when plan creation fails (invalid plan structure, unparsable LLM
\* text, or LLM error), process_request returns a FinalResult with status
\* "failed", empty results and the triggering message in errors, and
\* neither the Executor nor the Verifier is invoked for that request.
C18_PlanFailureSurfaced ==
  PlanCreationFailed =>
    /\ pc = "done"
    /\ ret = Return(PyDict([status |-> PyStr("failed"),
                            results |-> PyDict(EmptyRec),
                            errors |-> PyList(<<PyStr(IF plan_reply.kind = "raise"
                                                        THEN plan_reply.msg
                                                        ELSE "Invalid plan structure generated")>>),
                            missing_fields |-> PyList(<<>>)]))
    /\ plan = PyNone
    /\ log = <<>> /\ i = 0 /\ results = EmptyReport
    /\ verdict = NoCall /\ llm_reply = NoCall /\ basic = NoCall

\* C18 witness: the Planner's LLM returned a mapping with a steps field
\* that breaks a structural rule, and process_request returned the failed
\* result naming the invalid plan structure
C18_Witness ==
  /\ PlanCreationFailed
  /\ plan_reply.kind = "return"
  /\ plan_reply.value.ty = "dict"
  /\ "steps" \in DOMAIN plan_reply.value.val
  /\ pc = "done"
  /\ ret.value.val.errors = PyList(<<PyStr("Invalid plan structure generated")>>)

\* C19: refine_plan returns the original plan unchanged whenever the LLM
\* capability returns JSON that fails structural validation, and also when
\* the LLM call raises; it never raises, and when it returns a different
\* plan, that plan is the LLM's and passes structural validation.
C19_RefineFallsBack ==
  (entry = "refine_plan" /\ pc # "idle") =>
    /\ pc = "done"
    /\ ret.kind = "return"
    /\ plan_reply.kind = "raise" => ret.value = plan
    /\ (plan_reply.kind = "return" /\ ~WellFormedPlan(plan_reply.value)) => ret.value = plan
    /\ ret.value # plan =>
         /\ WellFormedPlan(ret.value)
         /\ plan_reply = Return(ret.value)

\* C19 witness: the LLM answered a two-step plan with a mapping that has
\* a steps field and breaks a structural rule, and refine_plan returned
\* the two-step plan
C19_Witness ==
  /\ entry = "refine_plan"
  /\ Len(Steps) = 2
  /\ plan_reply.kind = "return"
  /\ plan_reply.value.ty = "dict"
  /\ "steps" \in DOMAIN plan_reply.value.val
  /\ ~WellFormedPlan(plan_reply.value)
  /\ ret = Return(plan)

\* the strings of errors that basic validation added for the entry with
\* this key
ErrorsFor(key) ==
  {j \in 1..Len(basic.errors) :
     /\ Len(basic.errors[j]) >= Len(key) + 2
     /\ SubSeq(basic.errors[j], 1, Len(key) + 2) = key \o ": "}

\* a mapping whose error field is present and is no boolean
NonBooleanError(value) ==
  /\ IsDict(value)
  /\ "error" \in DOMAIN value.val
  /\ value.val.error.ty # "bool"

\* no entry of the report has error: true, in a mapping or in the first
\* element of a sequence
NoBooleanMarker ==
  \A k \in 1..Len(results.results) :
    LET value == results.results[k].value
    IN /\ IsDict(value) /\ "error" \in DOMAIN value.val => value.val.error # PyBool(TRUE)
       /\ IsList(value) /\ Len(value.val) > 0 => ~HasErrorMarker(value.val[1])

\* C20 as stated: a result mapping whose error field is present but is not
\* the boolean true is not classified as a failure by basic validation: no
\* errors entry is added for it and the status is not downgraded.
C20_AsStated ==
  Verified =>
    /\ \A k \in 1..Len(results.results) :
         NonBooleanError(results.results[k].value) => ErrorsFor(results.results[k].key) = {}
    /\ (results.steps_executed > 0 /\ results.steps_failed = 0 /\ NoBooleanMarker) =>
         basic.status = "success"

\* C20 amended: a result mapping whose error field is present and truthy
\* is classified as a failure by basic validation whether or not the field
\* is a boolean: the status is no longer "success" and the string
\* "<key>: <message, or Unknown error>" is added to errors; a mapping whose
\* error field is absent or falsy gets no errors entry.
C20_TruthyErrorClassified ==
  Verified =>
    \A k \in 1..Len(results.results) :
      LET key == results.results[k].key
          value == results.results[k].value
      IN IsDict(value) =>
           IF HasErrorMarker(value)
             THEN /\ basic.status \in {"partial", "failed"}
                  /\ Cardinality(ErrorsFor(key)) = 1
                  /\ \A j \in ErrorsFor(key) :
                       basic.errors[j] =
                         key \o ": " \o (IF "message" \in DOMAIN value.val
                                           THEN value.val.message.val
                                           ELSE "Unknown error")
             ELSE ErrorsFor(key) = {}

\* C20 witness: the report of one executed step, no failed step and the
\* get_forecast placeholder as its only entry is "partial" with the
\* entry's error string
C20_Witness ==
  /\ Verified
  /\ results.steps_executed = 1
  /\ results.steps_failed = 0
  /\ Len(results.results) = 1
  /\ results.results[1].key = "weather_get_forecast"
  /\ NonBooleanError(results.results[1].value)
  /\ basic.status = "partial"
  /\ basic.errors = <<"weather_get_forecast: Unknown error">>

\* process_request runs a plan of the one step github search_repos
OneSearchStep ==
  /\ entry = "process_request"
  /\ plan # PyNone
  /\ Len(Steps) = 1
  /\ StepAt(0) = Step("github", "search_repos", SearchParams)
  /\ Len(log) = 1
  /\ log[1].kind = "return"
  /\ IsList(log[1].value)

\* the search exhausted its attempts: the action returned the one-element
\* sequence [{name: "Error", ..., description: "Failed to fetch data: ..."}]
SearchFellBack ==
  /\ OneSearchStep
  /\ Len(log[1].value.val) = 1
  /\ log[1].value.val[1].val.name = PyStr("Error")

\* C21 as stated: for a one-step github search_repos plan whose action
\* returns the single-element error sequence, the report has
\* steps_executed = 1 and steps_failed = 1, and the Verifier yields status
\* "partial" with exactly one entry in errors.
C21_AsStated ==
  (SearchFellBack /\ verdict # NoCall) =>
    /\ results.steps_executed = 1
    /\ results.steps_failed = 1
    /\ verdict.kind = "return"
    /\ IsDict(verdict.value)
    /\ {"status", "errors"} \subseteq DOMAIN verdict.value.val
    /\ verdict.value.val.status = PyStr("partial")
    /\ IsList(verdict.value.val.errors)
    /\ Len(verdict.value.val.errors.val) = 1

\* C21 amended: for that plan the report has steps_executed = 1 and
\* steps_failed = 1 and basic validation yields "partial" with two entries
\* in errors, "1 step(s) failed" and "github_search_repos: <description>";
\* verify_and_format asks the LLM capability and returns that verdict when
\* the call raises, and when the call returns a mapping, the mapping with
\* the status it carries ("partial" when it carries none).
C21_SearchFallbackVerdict ==
  (SearchFellBack /\ verdict # NoCall) =>
    /\ results = [steps_executed |-> 1, steps_failed |-> 1,
                  results |-> <<[key |-> "github_search_repos", value |-> log[1].value]>>]
    /\ basic.status = "partial"
    /\ basic.errors = <<"1 step(s) failed",
                        "github_search_repos: " \o log[1].value.val[1].val.description.val>>
    /\ llm_reply # NoCall
    /\ llm_reply.kind = "raise" =>
         /\ verdict.kind = "return"
         /\ verdict.value.val.status = PyStr("partial")
         /\ verdict.value.val.errors = StrList(basic.errors)
         /\ verdict.value.val.results = PyDict([github_repos |-> log[1].value])
    /\ (llm_reply.kind = "return" /\ IsDict(llm_reply.value)) =>
         /\ verdict.kind = "return"
         /\ verdict.value.val.status =
              (IF "status" \in DOMAIN llm_reply.value.val
                 THEN llm_reply.value.val.status
                 ELSE PyStr("partial"))

\* C21 witness: the search timed out, the LLM call of the Verifier raised
\* and the verdict is "partial" with two entries in errors
C21_Witness ==
  /\ SearchFellBack
  /\ log[1] = Return(GitHubFallback("Request timeout"))
  /\ llm_reply.kind = "raise"
  /\ verdict.kind = "return"
  /\ verdict.value.val.status = PyStr("partial")
  /\ Len(verdict.value.val.errors.val) = 2

\* the search returned n well-formed repo mappings without error marker,
\* and process_request has returned
SearchSucceeded ==
  /\ OneSearchStep
  /\ \A k \in 1..Len(log[1].value.val) :
       IsDict(log[1].value.val[k]) /\ ~HasErrorMarker(log[1].value.val[k])
  /\ pc = "done"

\* C22 as stated: for a one-step github search_repos plan whose action
\* returns n well-formed repo mappings without error markers, the
\* pipeline's FinalResult has status "success", results.github_repos is
\* the sequence of exactly those n mappings in order, and errors is empty.
C22_AsStated ==
  SearchSucceeded =>
    /\ ret.kind = "return"
    /\ ret.value.val.status = PyStr("success")
    /\ "github_repos" \in DOMAIN ret.value.val.results.val
    /\ ret.value.val.results.val.github_repos = log[1].value
    /\ ret.value.val.errors = PyList(<<>>)

\* C22 amended: for that plan the FinalResult has status "success" and
\* empty errors; for n >= 1 results is {github_repos: the n mappings in
\* order}, and for n = 0 results is empty, without a github_repos field.
C22_SearchSuccessResult ==
  SearchSucceeded =>
    /\ llm_reply = NoCall
    /\ ret = verdict
    /\ ret.kind = "return"
    /\ ret.value =
         PyDict([status |-> PyStr("success"),
                 results |-> IF Len(log[1].value.val) >= 1
                               THEN PyDict([github_repos |-> log[1].value])
                               ELSE PyDict(EmptyRec),
                 missing_fields |-> PyList(<<>>),
                 errors |-> PyList(<<>>)])

\* C22 witness: the search returned two repo mappings and the FinalResult
\* lists the two in order
C22_Witness ==
  /\ SearchSucceeded
  /\ Len(log[1].value.val) = 2
  /\ ret.value.val.status = PyStr("success")
  /\ ret.value.val.results.val.github_repos.val = <<Repo(1), Repo(2)>>

\* verify_and_format resolved a caller's report on the deterministic
\* path: without a call of the LLM capability, or after the call raised
Deterministic ==
  /\ Verified
  /\ llm_reply = NoCall \/ llm_reply.kind = "raise"

\* what the entries from index k on give to github_repos: the elements
\* of a sequence, a mapping as one element
RECURSIVE ReposFrom(_)
ReposFrom(k) ==
  IF k > Len(results.results) THEN <<>>
  ELSE LET e == results.results[k]
       IN (IF ~Contains(e.key, "github") THEN <<>>
           ELSE IF IsList(e.value) THEN e.value.val
           ELSE IF IsDict(e.value) THEN <<e.value>>
           ELSE <<>>) \o ReposFrom(k + 1)

\* the entries with a mapping as value whose key contains "weather" and
\* not "github"
WeatherEntries ==
  {k \in 1..Len(results.results) :
     /\ Contains(results.results[k].key, "weather")
     /\ ~Contains(results.results[k].key, "github")
     /\ IsDict(results.results[k].value)}

\* C23: the deterministic formatter groups the report's entries by key
\* substring, in report order: every entry whose key contains "github"
\* gives to github_repos (the elements of a sequence one by one, a mapping
\* as one element); among the entries whose key contains "weather" and not
\* "github", the last one with a mapping as value becomes results.weather;
\* other entries give nothing.
C23_FormatterGrouping ==
  Deterministic =>
    LET out == verdict.value.val.results.val
    IN /\ DOMAIN out =
            (IF ReposFrom(1) # <<>> THEN {"github_repos"} ELSE {})
              \cup (IF WeatherEntries # {} THEN {"weather"} ELSE {})
       /\ "github_repos" \in DOMAIN out => out.github_repos = PyList(ReposFrom(1))
       /\ "weather" \in DOMAIN out =>
            \E k \in WeatherEntries :
              /\ \A j \in WeatherEntries : j <= k
              /\ out.weather = results.results[k].value

\* C23 witness: a report with two weather mappings was formatted and
\* results.weather is the second one
C23_Witness ==
  /\ Deterministic
  /\ Len(results.results) = 2
  /\ Cardinality(WeatherEntries) = 2
  /\ results.results[1].value # results.results[2].value
  /\ verdict.value.val.results.val.weather = results.results[2].value

C27_SequentialDispatch ==
  /\ [](entry = "execute_plan" =>
          /\ Len(log) = i
          /\ Len(log) <= Len(Steps)
          /\ \A j \in 1..Len(log) : log[j] \in execute_step(StepAt(j - 1), api_key)
          /\ pc = "executed" => Len(log) = Len(Steps))
  /\ [][(entry = "execute_plan" /\ log' # log) =>
          /\ pc = "executing"
          /\ Len(log') = Len(log) + 1
          /\ SubSeq(log', 1, Len(log)) = log
          /\ i' = i + 1]_vars

\* C27 witness: a returned report of a plan of three different steps whose
\* calls all returned
C27_Witness ==
  /\ entry = "execute_plan"
  /\ pc = "executed"
  /\ Len(Steps) = 3
  /\ StepAt(0) # StepAt(1) /\ StepAt(1) # StepAt(2) /\ StepAt(0) # StepAt(2)
  /\ \A j \in 0..2 : Returned(j)
  /\ Len(log) = 3

\* what an execute_plan call running alone has in `results` after the first
\* n steps of plan p, when the tools answered as recorded in outcomes
RECURSIVE AloneReport(_, _, _)
AloneReport(p, outcomes, n) ==
  IF n = 0 THEN EmptyReport
  ELSE StepBody(AloneReport(p, outcomes, n - 1), n - 1,
                PlanSteps(p)[n], outcomes[n]).value

\* request r has what it would have running alone
AsAlone(r) ==
  /\ reqs[r].pc \in {"executing", "executed", "done"} =>
        reqs[r].results = AloneReport(reqs[r].plan, reqs[r].log, Len(reqs[r].log))
  /\ reqs[r].pc = "done" =>
        /\ reqs[r].verdict.kind = "return"
        /\ reqs[r].verdict =
             verify_and_format(AloneReport(reqs[r].plan, reqs[r].log, Len(reqs[r].log)),
                               reqs[r].llm_reply)

PlannerInvoked == plan_reply # NoCall
ExecutorInvoked == pc \in {"executing", "executed"} \/ log # <<>> \/ verdict # NoCall
VerifierInvoked == verdict # NoCall

\* C29: process_request runs Planner, Executor, Verifier in this order: the
\* Executor is invoked only with the validated plan create_plan returned,
\* the Verifier only once execute_plan has run every step and returned,
\* no stage is invoked a second time, and refine_plan is never invoked.
C29_StagesInOrder ==
  /\ [](/\ entry \in {"none", "process_request"}
        /\ ExecutorInvoked =>
             /\ PlannerInvoked
             /\ create_plan(plan_reply) = Return(plan)
             /\ WellFormedPlan(plan)
        /\ VerifierInvoked =>
             /\ ExecutorInvoked
             /\ pc \notin {"executing", "executed"}
             /\ Len(log) = Len(Steps) /\ i = Len(Steps))
  /\ [][/\ (plan_reply' # plan_reply) =>
             (~PlannerInvoked /\ ~ExecutorInvoked /\ ~VerifierInvoked)
        /\ (pc' = "executing" /\ pc # "executing") =>
             (~ExecutorInvoked /\ PlannerInvoked')
        /\ (log' # log) => (pc = "executing" /\ ~VerifierInvoked)
        /\ (verdict' # verdict \/ llm_reply' # llm_reply) =>
             (pc = "executed" /\ ~VerifierInvoked)
        /\ ExecutorInvoked => (plan' = plan /\ plan_reply' = plan_reply)
        /\ VerifierInvoked => (log' = log /\ results' = results)]_vars

\* C29 witness: a request went through the three stages: the Planner's LLM
\* returned a plan of two steps, the Executor ran both, and the Verifier,
\* consulted after the second, returned the result of the request.
C29_Witness ==
  /\ entry = "process_request" /\ pc = "done"
  /\ PlannerInvoked /\ ExecutorInvoked /\ VerifierInvoked
  /\ plan # PyNone
  /\ Len(Steps) = 2 /\ Len(log) = 2
  /\ llm_reply # NoCall
  /\ ret = verdict

\* the most requests the running action may make: retry_count where the
\* action takes one; get_repo_info has no such parameter and makes its one
\* request; get_weather_forecast makes none
AttemptLimit ==
  CASE tool_call.action \in {"search_repos", "get_weather"} -> tool_call.retry_count
    [] tool_call.action = "get_repo_info" -> 1
    [] OTHER -> 0

\* the requests made so far, and whether the last one brought data
Requests == Len(tool_call.transport)
LastAnswered == Requests > 0 /\ tool_call.transport[Requests] = "200"

BusinessFailure == tool_call.pc = "returned" /\ ~LastAnswered

CountersStatus(report) ==
  IF report.steps_executed = 0 THEN "failed"
  ELSE IF report.steps_failed > 0 THEN "partial"
  ELSE "success"

\* how many entries the scan of _basic_validation flagged: the strings of
\* errors beyond those the counters gave
ScanFlagged(report) ==
  Len(basic_validation(report).errors)
    - (IF report.steps_failed > 0 THEN 1 ELSE 0)
    - (IF report.steps_executed = 0 THEN 1 ELSE 0)

\* C32: on every report execute_plan builds, each entry the Verifier's
\* scan flags was counted in steps_failed by the Executor, so the scan
\* leaves the status where the counters put it: success iff
\* steps_executed > 0 and steps_failed = 0.
C32_ChecksAgree ==
  /\ [](entry = "execute_plan" =>
          /\ ScanFlagged(results) = Cardinality(Flagged)
          /\ ScanFlagged(results) <= results.steps_failed
          /\ basic_validation(results).status = CountersStatus(results)
          /\ (basic_validation(results).status = "success")
               <=> (results.steps_executed > 0 /\ results.steps_failed = 0))
  /\ [][(entry = "execute_plan" /\ Iteration) =>
          /\ KeepsEntries
          /\ EmbeddedError(Added(results, results').value) =>
               results'.steps_failed = results.steps_failed + 1]_vars

\* C32 witness: execute_plan returned the report of three steps: a
\* repository lookup answered with an error text, a search that fell back
\* and a step with an unknown tool; the scan flags all three entries, all
\* three were counted, and the status is that of the counters.
C32_Witness ==
  /\ entry = "execute_plan"
  /\ pc = "executed"
  /\ Len(log) = 3
  /\ log[1].kind = "return" /\ IsDict(log[1].value)
  /\ NonBooleanError(log[1].value)
  /\ log[2].kind = "return" /\ IsList(log[2].value)
  /\ log[3].kind = "raise"
  /\ Cardinality(Flagged) = 3
  /\ results.steps_failed = 3
  /\ results.steps_executed = 2
  /\ basic_validation(results).status = "partial"

\* the action of the step is not registered for its tool
UnknownAction(step) ==
  /\ InKeys(step.val.tool, DOMAIN action_map)
  /\ ~InKeys(step.val.action, DOMAIN action_map[step.val.tool.val])

\* the message _execute_step raises ValueError with for such a step
UnknownActionMessage(step) ==
  "Unknown action '" \o PyFormat(step.val.action) \o "' for tool '"
    \o step.val.tool.val \o "'"

\* C33: every tool name the Planner's validation accepts is a key of the
\* Executor's registry: in a plan create_plan returned no step fails
\* dispatch as an unknown tool; a step fails dispatch exactly when its
\* action is not registered for its tool, which the Planner does not
\* check, and the Executor then records it as a failed step.
C33_AllowListWithinRegistry ==
  /\ valid_tools \subseteq DOMAIN action_map
  /\ (entry = "process_request" /\ plan # PyNone) =>
       /\ \A j \in 1..Len(Steps) : InKeys(Steps[j].val.tool, DOMAIN action_map)
       /\ \A j \in 1..Len(log) :
            /\ ~(log[j].kind = "raise" /\ Contains(log[j].msg, "Unknown tool"))
            /\ (log[j].kind = "raise" /\ log[j].exc = "ValueError")
                 <=> UnknownAction(Steps[j])
            /\ UnknownAction(Steps[j]) =>
                 /\ log[j] = Raise("ValueError", UnknownActionMessage(Steps[j]))
                 /\ HasKey(results.results, "error_step_" \o ToString(j - 1))
                 /\ GetItem(results.results, "error_step_" \o ToString(j - 1))
                      = PyDict([error |-> PyBool(TRUE),
                                message |-> PyStr(UnknownActionMessage(Steps[j])),
                                step |-> Steps[j]])
                 /\ results.steps_failed >= 1

\* C33 witness: create_plan returned a plan whose second step names the
\* tool weather with the action search_repos; the Executor ran the first
\* step, recorded the second as failed, and the request ended.
C33_Witness ==
  /\ entry = "process_request" /\ pc = "done"
  /\ plan # PyNone
  /\ Len(Steps) = 2 /\ Len(log) = 2
  /\ ~UnknownAction(Steps[1])
  /\ UnknownAction(Steps[2])
  /\ Steps[2].val.tool = PyStr("weather")
  /\ results.steps_executed = 1
  /\ results.steps_failed >= 1
  /\ HasKey(results.results, "error_step_1")

\* the key of the entry names one of the two categories of the formatter
InCategory(e) == Contains(e.key, "github") \/ Contains(e.key, "weather")

\* verify_and_format answered a caller with the deterministic formatter:
\* basic validation said success, or the LLM path failed
FormatterAnswered == Verified /\ (llm_reply = NoCall \/ LLMPathFailed)

\* C34: a FinalResult of the deterministic formatter (success path or
\* fallback after the LLM path failed) has in results no key but
\* github_repos and weather, each only with a non-empty value; entries
\* whose key contains neither "github" nor "weather", the error_step_<i>
\* records among them, contribute nothing to results; status,
\* missing_fields and errors are those of basic validation.
C34_FormatterCategories ==
  FormatterAnswered =>
    /\ verdict.kind = "return"
    /\ DOMAIN verdict.value.val = FinalResultFields
    /\ LET out == verdict.value.val.results.val
           kept == [results EXCEPT !.results = SelectSeq(@, InCategory)]
       IN /\ DOMAIN out \subseteq {"github_repos", "weather"}
          /\ "github_repos" \in DOMAIN out =>
               IsList(out.github_repos) /\ Len(out.github_repos.val) > 0
          /\ "weather" \in DOMAIN out =>
               IsDict(out.weather) /\ DOMAIN out.weather.val # {}
          /\ verdict.value.val.results = format_results(kept, basic).val.results
          /\ \A k \in 1..Len(results.results) :
               ~InCategory(results.results[k]) =>
                 /\ "weather" \in DOMAIN out => out.weather # results.results[k].value
                 /\ "github_repos" \in DOMAIN out =>
                      \A j \in 1..Len(out.github_repos.val) :
                        out.github_repos.val[j] # results.results[k].value
    /\ basic = basic_validation(results)
    /\ verdict.value.val.status = PyStr(basic.status)
    /\ verdict.value.val.missing_fields = StrList(basic.missing_fields)
    /\ verdict.value.val.errors = StrList(basic.errors)

\* C34 witness: the LLM call raised on a report of a weather mapping and
\* an error_step_0 record; the fallback's results holds the weather
\* mapping alone, and its errors name the error_step_0 record.
C34_Witness ==
  /\ FormatterAnswered
  /\ llm_reply.kind = "raise"
  /\ Len(results.results) = 2
  /\ \E k \in 1..2 : results.results[k].key = "error_step_0"
  /\ DOMAIN verdict.value.val.results.val = {"weather"}
  /\ \E j \in 1..Len(basic.errors) :
       Len(basic.errors[j]) > 12 /\ SubSeq(basic.errors[j], 1, 12) = "error_step_0"

====
